---- MODULE Spec2Model ----
(***************************************************************************)
(* tui-cam: the frame sources (FfmpegCamera, MockCamera) and their start /  *)
(* stop lifecycle, the shader pipeline (its factory, the stages of         *)
(* processFrame and its buffer discipline) and the frame callback of the   *)
(* main loop.                                                              *)
(*                                                                         *)
(* Pixel buffers are heap objects: a Frame or a ProcessedFrame holds a     *)
(* REFERENCE to a buffer (frameBufA, frameBufB, mirrorBuf, effectBuf, a    *)
(* mock allocation), and the bytes live in the variable that models the    *)
(* buffer.  Time is performance.now(), a non-decreasing clock.             *)
(***************************************************************************)
EXTENDS Integers, Sequences, FiniteSets, TLC

\* ---------------------------------------------------------------- bounds
Width == 1
Height == 1
MaxFrames == 3
LoopFrames == 2
MaxClockSteps == 2
MaxInFlight == 2
MaxStarts == 2
PipeWidth == 3
PipeHeight == 3
MaxArgs == 2

\* ------------------------------------------------------- program constants
BytesPerPixel == 4
SeamSize == 10
FpsWindowMs == 1000

\* the clock is read in steps of half the fps window
ClockStep == FpsWindowMs \div 2
MaxTime == MaxClockSteps * ClockStep

FrameSize == Width * Height * BytesPerPixel
MaxChunk == 2 * FrameSize + 1

\* The i-th byte (0-based) the capture process writes to its stdout.  Every
\* position of the bounded stream carries a different value, so a frame cut
\* at the wrong place or assembled from two frames is told apart.
StreamByte(i) == (7 * i + 3) % 256

\* chunk lengths for the main loop's specification: half a frame, a frame,
\* two frames
ChunkLens == {FrameSize \div 2, FrameSize, 2 * FrameSize}

\* value of one reader.read(): the next len bytes of the stream
Chunk(from, len) == [j \in 1..len |-> StreamByte(from + j - 1)]

\* bytes [k*frameSize, (k+1)*frameSize) of the stream
StreamFrame(k) == Chunk(k * FrameSize, FrameSize)

\* A Frame: data is the reference to its pixel buffer; seq is bookkeeping, the
\* number of the publication (this.frame = ...) that created it.
\* References to pixel buffers.
Null == <<>>
BufA == <<"frameBufA">>
BufB == <<"frameBufB">>
MirrorBuf == <<"mirrorBuf">>
EffectBuf == <<"effectBuf">>
LuminanceBuf == <<"luminanceBuf">>
InputBuf == <<"input">>
MockBuf(k) == <<"mock", k>>

NoFrame == [width |-> 0, height |-> 0, data |-> Null, timestamp |-> -1, seq |-> 0]

Zeros(n) == [j \in 1..n |-> 0]

VARIABLES
  mock,          \* config.mock: which CameraSource main() constructed
  now,           \* the value performance.now() returns
  \* FfmpegCamera
  running,
  readerDone,
  proc,          \* this.proc: number of the subprocess, 0 for null
  spawned,       \* one record per Bun.spawn of start(): the subprocess and the
                 \* readFrames() call that drains it, with that call's locals
  starts,        \* history: how every start() call settled
  frameBufA,
  frameBufB,
  useA,
  ffFrame,       \* FfmpegCamera.frame
  published,     \* history: every Frame a source assigned to this.frame
  \* MockCamera
  mockRunning,   \* MockCamera.running
  timer,         \* MockCamera.timer: number of the interval, 0 for null
  timers,        \* the intervals that are set and not cleared
  timersMade,    \* number of setInterval calls so far
  mockT,         \* MockCamera.t
  mockHeap,      \* the Uint8ClampedArrays generateFrame allocated, by number
  mockFrame,     \* MockCamera.frame
  \* index.ts: module and main() state
  currentEffect,
  mirror,
  paused,
  frameCount,
  lastFpsTime,
  currentFps,
  lastFrameTimestamp,
  processing,
  inFlight,      \* frame-callback invocations that are inside pipeline.processFrame
  \* createShaderPipeline
  gpuEnabled,    \* its third argument: !config.noGpu
  factory,       \* where the call is: "idle" (not made), "probing" (awaiting
                 \* the probe subprocess or its 3 s timer), "initializing"
                 \* (awaiting initialize() or the 5 s timer), or how its
                 \* promise settled
  probe,         \* how the probe ended and the exit code it went by
  gpuInit,       \* what initialize() of the GPU pipeline ended with
  pipeline,      \* the pipeline returned: "cpu", "gpu", "none"
  \* the CpuShaderPipeline of main()
  scratchLen,    \* mirrorBuf.length; 0 while mirrorBuf is null
  \* a CpuShaderPipeline that a caller made for frames of its own (as
  \* part_004 lines 46-70 does), with the contents of its buffers
  outDims,       \* <<outWidth, outHeight>>
  mirrorBuf,     \* the bytes of mirrorBuf, <<>> while it is null
  effectBuf,     \* the bytes of effectBuf, <<>> while it is null
  luminanceBuf,  \* the values of luminanceBuf, in units of 1/255000
  inputBuf,      \* the bytes of the buffer the caller's frame references
  inputDims,     \* <<width, height>> of the caller's frame
  lastCall,      \* the arguments of the last processFrame call
  result,        \* the ProcessedFrame that call returned
  \* the sink
  currentFrame,  \* AsciiViewport.currentFrame
  statusBar,     \* StatusBar.info (fields paused, fps)
  \* bookkeeping
  event,         \* what the step just taken did, if it was a step of the
                 \* frame callback: the branch and the calls it made
  lastProcessed, \* publication number of the frame last handed to processFrame
  thrown,        \* publication number of the frame processFrame last threw on
  rendered,      \* the effect and mirror arguments of the processFrame call
                 \* whose result the viewport holds
  \* the process and index.ts at module level
  argv,          \* Bun.argv.slice(2)
  config,        \* const config (part_000 line 228)
  mainAt,        \* the await main() is at, "running" after its last line,
                 \* "rejected" if its promise rejected
  renderer,      \* app.renderer: "undefined", "created", "destroyed"
  camera,        \* let camera: "undefined", "created", "stopped"
  shaders,       \* let pipeline: "undefined", "created", "destroyed"
  exited,        \* "no", "exit" (process.exit(0) was reached), "threw" (an
                 \* exception left cleanup())
  \* TuiCamApp
  helpVisible,
  helpOverlay,   \* "null", "visible", "hidden"
  keyEvent       \* bookkeeping: the last keypress, what handleKey found and
                 \* what it passed to onAction

Did(path, calls) == [path |-> path, calls |-> calls]
NoEvent == Did("none", {})

\* processFrame is a synchronous call: while a frame-callback invocation is
\* inside it nothing else of the program runs (no stream read, no timer, no
\* key handler).  The one thing the model lets happen then is what the
\* processing flag exists for: the renderer invoking the frame callback again.
EventLoopFree == inFlight = <<>>

\* the locals of the readFrames() call of the first start(): the accumulation
\* buffer (bytes [0, offset)), buffer.length, offset, and the number of stream
\* bytes its reader.read() calls have returned so far
buffer == spawned[1].buffer
bufLen == spawned[1].bufLen
offset == spawned[1].offset
received == spawned[1].received

lifeVars == <<running, readerDone, proc, spawned, starts>>
camVars == <<lifeVars, frameBufA, frameBufB, useA, ffFrame>>
mockLifeVars == <<mockRunning, timer, timers, timersMade>>
mockVars == <<mockLifeVars, mockT, mockHeap, mockFrame>>
loopVars == <<currentEffect, mirror, paused, frameCount, lastFpsTime, currentFps,
              lastFrameTimestamp, processing, inFlight>>
sinkVars == <<currentFrame, statusBar>>
logVars == <<event, lastProcessed, thrown>>
pipeVars == <<outDims, mirrorBuf, effectBuf, luminanceBuf, inputBuf, inputDims, lastCall,
              result>>
factoryVars == <<gpuEnabled, factory, probe, gpuInit, pipeline>>
bootVars == <<mainAt, renderer, camera, shaders, exited>>
uiVars == <<argv, config, bootVars, helpVisible, helpOverlay, keyEvent>>
appVars == <<uiVars, rendered>>
coreVars == <<mock, pipeVars, factoryVars, now, camVars, published, mockVars, loopVars,
              scratchLen, sinkVars, logVars>>
vars == <<mock, pipeVars, factoryVars, now, camVars, published, mockVars, loopVars, scratchLen, sinkVars,
          logVars, appVars>>

\* ------------------------------------------------------------ FfmpegCamera

\* line 87: the buffer the next extraction writes into
WriteTargetAlwaysA(a) == BufA
WriteTarget(a) == IF a THEN BufA ELSE BufB

\* line 88: this.useA = !this.useA
NextUseAStuck(a) == a
NextUseA(a) == ~a

\* line 89: frameData.set(buffer.subarray(0, frameSize)); old is what the
\* target buffer held
CopyFrameShort(old, buf) == SubSeq(buf, 1, FrameSize - 1) \o <<old[FrameSize]>>
CopyFrame(old, buf) == SubSeq(buf, 1, FrameSize)

\* line 98: buffer.copyWithin(0, frameSize, offset)
ShiftRemainingOffByOne(buf, off) == SubSeq(buf, FrameSize, off - 1)
ShiftRemaining(buf, off) == SubSeq(buf, FrameSize + 1, off)

\* lines 85-100: the extraction loop.  c is the read loop's state, t the
\* clock at the first performance.now(), dt what the clock gains between
\* two iterations.
RECURSIVE ExtractFrames(_, _, _)
ExtractFrames(c, t, dt) ==
  IF c.offset >= FrameSize
  THEN LET target == WriteTarget(c.useA)
           bytes  == CopyFrame(IF target = BufA THEN c.frameBufA ELSE c.frameBufB,
                               c.buffer)
           fr     == [width |-> Width, height |-> Height, data |-> target,
                      timestamp |-> t, seq |-> Len(c.published) + 1]
           c2 == [c EXCEPT
                    !.useA = NextUseA(c.useA),
                    !.frameBufA = IF target = BufA THEN bytes ELSE @,
                    !.frameBufB = IF target = BufB THEN bytes ELSE @,
                    !.frame = fr,
                    !.published = Append(@, [data |-> target, bytes |-> bytes]),
                    !.buffer = ShiftRemaining(c.buffer, c.offset),
                    !.offset = c.offset - FrameSize,
                    !.clock = t]
       IN ExtractFrames(c2, t + dt, dt)
  ELSE c

\* lines 74-79: capacity after the optional growth
Grow(len, off, n) == IF off + n > len
  THEN (IF len * 2 >= off + n THEN len * 2 ELSE off + n)
  ELSE len

\* lines 75-77: what the new buffer holds after newBuf.set(buffer.subarray(0,
\* offset))
PreservedZeros(buf, off) == Zeros(off)
Preserved(buf, off) == SubSeq(buf, 1, off)

\* lines 104-106: this.readerDone after a readFrames() call left its loop;
\* exit is how it left: "stopped" (the while condition), "eof" (done),
\* "error" (reader.read() or the loop body threw)
ReaderDoneUnlessError(exit) == exit # "error"
ReaderDoneAfter(exit) == TRUE

\* lines 58-107: how the promise of a readFrames() call settles when the call
\* leaves its loop: the catch swallows what the loop threw
LoopSettles(exit) == "exited"

\* number of stream bytes the reader.read() calls of the first k readFrames()
\* calls have returned so far
RECURSIVE Delivered(_)
Delivered(k) == IF k = 0 THEN 0 ELSE spawned[k].received + Delivered(k - 1)

\* lines 69-106: one reader.read() of the l-th readFrames() call that
\* returned a chunk of n bytes, the loop body, and the while condition that
\* follows it.  A pipe still delivers what the subprocess wrote before it was
\* killed or exited.
ReadChunk(l, n, dt, frames) ==
  /\ ~mock
  /\ EventLoopFree
  /\ spawned[l].loop = "reading"
  /\ spawned[l].device
  /\ Delivered(Len(spawned)) + n <= frames * FrameSize
  /\ LET my == spawned[l]
         grown == Grow(my.bufLen, my.offset, n) # my.bufLen
         kept == IF grown THEN Preserved(my.buffer, my.offset) ELSE my.buffer
         c0 == [buffer |-> kept \o Chunk(my.received, n),
                offset |-> my.offset + n,
                useA |-> useA, frameBufA |-> frameBufA, frameBufB |-> frameBufB,
                frame |-> ffFrame, published |-> published, clock |-> now]
         c == ExtractFrames(c0, now, dt)
     IN /\ c.clock <= MaxTime
        /\ spawned' = [spawned EXCEPT ![l] =
                         [@ EXCEPT !.bufLen = Grow(my.bufLen, my.offset, n),
                                   !.buffer = c.buffer,
                                   !.offset = c.offset,
                                   !.received = my.received + n,
                                   !.loop = IF running THEN "reading"
                                            ELSE LoopSettles("stopped")]]
        /\ useA' = c.useA
        /\ frameBufA' = c.frameBufA
        /\ frameBufB' = c.frameBufB
        /\ ffFrame' = c.frame
        /\ published' = c.published
        /\ now' = c.clock
  /\ readerDone' = IF running THEN readerDone ELSE ReaderDoneAfter("stopped")
  /\ event' = NoEvent
  /\ UNCHANGED <<appVars, mock, pipeVars, factoryVars, running, proc, starts, mockVars, loopVars, scratchLen, sinkVars,
                 lastProcessed, thrown>>

\* lines 70-71 and 104-106: reader.read() of the l-th readFrames() call
\* returns done, which it does once the subprocess has closed its stdout
StreamEnd(l) ==
  /\ ~mock
  /\ EventLoopFree
  /\ spawned[l].loop = "reading"
  /\ spawned[l].proc # "alive"
  /\ spawned' = [spawned EXCEPT ![l].loop = LoopSettles("eof")]
  /\ readerDone' = ReaderDoneAfter("eof")
  /\ event' = NoEvent
  /\ UNCHANGED <<appVars, mock, pipeVars, factoryVars, now, running, proc, starts, frameBufA, frameBufB, useA, ffFrame,
                 published, mockVars, loopVars, scratchLen, sinkVars, lastProcessed,
                 thrown>>

\* lines 70 and 102-106: reader.read() of the l-th readFrames() call rejects
ReadFails(l) ==
  /\ ~mock
  /\ EventLoopFree
  /\ spawned[l].loop = "reading"
  /\ spawned' = [spawned EXCEPT ![l].loop = LoopSettles("error")]
  /\ readerDone' = ReaderDoneAfter("error")
  /\ event' = NoEvent
  /\ UNCHANGED <<appVars, mock, pipeVars, factoryVars, now, running, proc, starts, frameBufA, frameBufB, useA, ffFrame,
                 published, mockVars, loopVars, scratchLen, sinkVars, lastProcessed,
                 thrown>>

\* the l-th subprocess exits by itself: ffmpeg cannot open the capture
\* device, the device goes away, ffmpeg crashes
ProcExits(l) ==
  /\ ~mock
  /\ EventLoopFree
  /\ spawned[l].proc = "alive"
  /\ spawned' = [spawned EXCEPT ![l].proc = "exited"]
  /\ event' = NoEvent
  /\ UNCHANGED <<appVars, mock, pipeVars, factoryVars, now, running, readerDone, proc, starts, frameBufA, frameBufB,
                 useA, ffFrame, published, mockVars, loopVars, scratchLen, sinkVars,
                 lastProcessed, thrown>>

\* lines 28-56: how the promise of start() settles.  outcome is what Bun.spawn
\* met: "nospawn" (it throws: no ffmpeg executable), "nodevice" (ffmpeg is
\* spawned and will exit without a frame: it cannot open the capture
\* device), "spawned"
StartSettles(outcome) == IF outcome = "nospawn" THEN "rejected" ELSE "resolved"

\* lines 63-64: the locals of a readFrames() call that reached its first
\* reader.read()
NewSpawn(outcome) ==
  [proc |-> "alive", loop |-> "reading", device |-> outcome = "spawned",
   buffer |-> <<>>, bufLen |-> FrameSize * 2, offset |-> 0, received |-> 0]

\* lines 28-56: start(), up to the first await of the readFrames() call it
\* makes.  main() calls it once createShaderPipeline has returned (part_000
\* lines 301-304).
Start(outcome, calls) ==
  /\ ~mock
  /\ EventLoopFree
  /\ factory = "resolved"
  /\ Len(starts) < calls
  /\ starts' = Append(starts, [outcome |-> outcome, settled |-> StartSettles(outcome)])
  /\ IF outcome = "nospawn"
     THEN UNCHANGED <<running, readerDone, proc, spawned>>
     ELSE /\ spawned' = Append(spawned, NewSpawn(outcome))
          /\ proc' = Len(spawned) + 1
          /\ running' = TRUE
          /\ readerDone' = FALSE
  /\ event' = NoEvent
  /\ UNCHANGED <<appVars, mock, pipeVars, factoryVars, now, frameBufA, frameBufB, useA, ffFrame, published, mockVars,
                 loopVars, scratchLen, sinkVars, lastProcessed, thrown>>

\* lines 133-139: stop()
Stop ==
  /\ ~mock
  /\ EventLoopFree
  /\ running' = FALSE
  /\ spawned' = IF proc # 0 /\ spawned[proc].proc = "alive"
                THEN [spawned EXCEPT ![proc].proc = "killed"]
                ELSE spawned
  /\ proc' = 0
  /\ event' = NoEvent
  /\ UNCHANGED <<appVars, mock, pipeVars, factoryVars, now, readerDone, starts, frameBufA, frameBufB, useA, ffFrame,
                 published, mockVars, loopVars, scratchLen, sinkVars, lastProcessed,
                 thrown>>

\* lines 145-147
IsRunning == running /\ ~readerDone

\* -------------------------------------------------------------- MockCamera

\* part_001 lines 83-186: every pattern writes bright, bright, bright, 255
\* to each pixel; bright is whatever the pattern computes
Brights == {0, 255}
LoopBrights == {255}
DrawPatternNoAlpha(bright) == [j \in 1..FrameSize |-> bright]
DrawPattern(bright) ==
  [j \in 1..FrameSize |-> IF j % BytesPerPixel = 0 THEN 255 ELSE bright]

\* part_001 lines 54-81: generateFrame() with this.t = t
Generate(t, bright) ==
  /\ mockT' = t + 1
  /\ mockHeap' = Append(mockHeap, DrawPattern(bright))
  /\ mockFrame' = [width |-> Width, height |-> Height,
                   data |-> MockBuf(Len(mockHeap) + 1), timestamp |-> now,
                   seq |-> Len(published) + 1]
  /\ published' = Append(published,
                         [data |-> MockBuf(Len(mockHeap) + 1), bytes |-> DrawPattern(bright)])

\* part_001 lines 32-34: an interval of the instance fires
GenerateFrame(bright, frames) ==
  /\ mock
  /\ EventLoopFree
  /\ timers # {}
  /\ Len(mockHeap) < frames
  /\ Generate(mockT, bright)
  /\ event' = NoEvent
  /\ UNCHANGED <<appVars, mock, pipeVars, factoryVars, now, camVars, mockLifeVars, loopVars, scratchLen, sinkVars,
                 lastProcessed, thrown>>

\* part_001 lines 29-36: start()
MockStart(bright, frames, calls) ==
  /\ mock
  /\ EventLoopFree
  /\ factory = "resolved"
  /\ timersMade < calls
  /\ Len(mockHeap) < frames
  /\ mockRunning' = TRUE
  /\ timer' = timersMade + 1
  /\ timers' = timers \cup {timersMade + 1}
  /\ timersMade' = timersMade + 1
  /\ Generate(0, bright)
  /\ event' = NoEvent
  /\ UNCHANGED <<appVars, mock, pipeVars, factoryVars, now, camVars, loopVars, scratchLen, sinkVars, lastProcessed,
                 thrown>>

\* part_001 lines 38-44: stop()
MockStop ==
  /\ mock
  /\ EventLoopFree
  /\ mockRunning' = FALSE
  /\ timers' = timers \ {timer}
  /\ timer' = 0
  /\ event' = NoEvent
  /\ UNCHANGED <<appVars, mock, pipeVars, factoryVars, now, camVars, published, timersMade, mockT, mockHeap, mockFrame,
                 loopVars, scratchLen, sinkVars, lastProcessed, thrown>>

\* part_001 lines 50-52
MockIsRunning == mockRunning

\* ------------------------------------------------------------------- clock
TimePasses ==
  /\ now + ClockStep <= MaxTime
  /\ now' = now + ClockStep
  /\ event' = NoEvent
  /\ UNCHANGED <<appVars, mock, pipeVars, factoryVars, camVars, published, mockVars, loopVars, scratchLen, sinkVars,
                 lastProcessed, thrown>>

\* ------------------------------------------------------- CpuShaderPipeline

\* part_005 lines 39-46
EnsureBuffersGrowOnly(len, pixelCount) ==
  IF len < pixelCount * BytesPerPixel THEN pixelCount * BytesPerPixel ELSE len
EnsureBuffers(len, pixelCount) ==
  IF len = 0 \/ len # pixelCount * BytesPerPixel THEN pixelCount * BytesPerPixel ELSE len

\* part_005 lines 52-127, the buffers: which buffer each stage leaves its
\* result in, and the references the returned ProcessedFrame holds.  of is
\* bookkeeping: the publication number of the frame it was computed from.
\* part_005 lines 64-82: the effects the switch has a case for; for any
\* other value (also one that is no EffectName) processed stays as it is
HasCase(effect) == effect \in {"edges", "invert", "threshold", "posterize", "contrast"}

ProcessFrameReturnsInput(frame, effect, mir) ==
  [luminance |-> LuminanceBuf, color |-> frame.data, of |-> frame.seq]
ProcessFrame(frame, effect, mir) ==
  LET afterMirror == IF mir THEN MirrorBuf ELSE frame.data
      afterEffect == IF HasCase(effect) THEN EffectBuf ELSE afterMirror
  IN [luminance |-> LuminanceBuf, color |-> afterEffect, of |-> frame.seq]

NoProcessed == [luminance |-> Null, color |-> Null, of |-> 0]

\* ------------------------------------------------ effects.ts, on the bytes

\* the bytes of 0-based pixel p of an RGBA buffer
Red(data, p) == data[4 * p + 1]
Green(data, p) == data[4 * p + 2]
Blue(data, p) == data[4 * p + 3]
Alpha(data, p) == data[4 * p + 4]

\* a value that is NaN is written as a negative number: the sums below are
\* never negative

\* 0.299 r + 0.587 g + 0.114 b of pixel p, in units of 1/1000.  A read
\* outside the array is undefined and the sum is NaN then.
Lum(data, p) ==
  IF 4 * p + 1 \in DOMAIN data /\ 4 * p + 3 \in DOMAIN data
  THEN 299 * Red(data, p) + 587 * Green(data, p) + 114 * Blue(data, p)
  ELSE -1

\* effects.ts lines 113-126
CpuMirrorBytewise(data, w, h) ==
  [j \in 1..Len(data) |->
     LET row == (j - 1) \div (4 * w)
         k == (j - 1) % (4 * w)
     IN data[4 * w * row + (4 * w - 1 - k) + 1]]
CpuMirror(data, w, h) ==
  [j \in 1..(4 * w * h) |->
     LET p == (j - 1) \div 4
         x == p % w
         y == p \div w
     IN data[4 * (y * w + (w - 1 - x)) + ((j - 1) % 4) + 1]]

\* effects.ts lines 22-32
CpuInvertAll(data) == [j \in 1..Len(data) |-> 255 - data[j]]
CpuInvert(data) ==
  [j \in 1..Len(data) |-> IF j % 4 = 0 THEN data[j] ELSE 255 - data[j]]

\* The pixels whose luminance is 128 exactly and for which the double sum
\* 0.299*r + 0.587*g + 0.114*b, added in this order, is 127.99999999999999.
DoubleSumBelow128 ==
  {<<8, 200, 72>>, <<12, 190, 113>>, <<19, 201, 38>>, <<23, 191, 79>>,
   <<24, 160, 236>>, <<34, 192, 45>>, <<38, 182, 86>>, <<42, 172, 127>>,
   <<49, 183, 52>>, <<53, 173, 93>>, <<57, 163, 134>>, <<64, 174, 59>>,
   <<72, 154, 141>>, <<75, 175, 25>>, <<79, 165, 66>>, <<87, 145, 148>>,
   <<90, 166, 32>>, <<94, 156, 73>>, <<98, 146, 114>>, <<102, 136, 155>>,
   <<105, 157, 39>>, <<113, 137, 121>>, <<116, 158, 5>>, <<117, 127, 162>>,
   <<120, 148, 46>>, <<128, 128, 128>>, <<131, 149, 12>>, <<132, 118, 169>>,
   <<135, 139, 53>>, <<143, 119, 135>>, <<146, 140, 19>>, <<154, 120, 101>>,
   <<158, 110, 142>>, <<161, 131, 26>>, <<169, 111, 108>>, <<176, 122, 33>>,
   <<177, 91, 190>>, <<184, 102, 115>>, <<195, 103, 81>>, <<199, 93, 122>>,
   <<202, 114, 6>>, <<210, 94, 88>>, <<225, 85, 95>>, <<240, 76, 102>>,
   <<251, 77, 68>>, <<255, 67, 109>>}

\* effects.ts lines 38-39 with cutoff 128: lum >= cutoff, in double arithmetic
AtLeastCutoff(data, p) ==
  /\ Lum(data, p) >= 128 * 1000
  /\ <<Red(data, p), Green(data, p), Blue(data, p)>> \notin DoubleSumBelow128

\* effects.ts lines 34-46, called with cutoff 128 (part_005 line 74)
CpuThreshold(data) ==
  [j \in 1..Len(data) |->
     IF j % 4 = 0 THEN data[j]
     ELSE IF AtLeastCutoff(data, (j - 1) \div 4) THEN 255 ELSE 0]

\* effects.ts lines 51-55 with levels 4: step is 85, and
\* Math.round(Math.round(v / 85) * 85)
PosterizeByteDown(v) == 85 * (v \div 85)
PosterizeByte(v) == 85 * ((2 * v + 85) \div 170)

\* effects.ts lines 48-59, called with levels 4 (part_005 line 77)
CpuPosterize(data) ==
  [j \in 1..Len(data) |-> IF j % 4 = 0 THEN data[j] ELSE PosterizeByte(data[j])]

\* effects.ts lines 65-69 with amount 1.5: v * 1.5 - 63.75 clamped to
\* [0, 255] and stored in a Uint8ClampedArray, which rounds to the nearest
\* integer (4 times the value is odd, so it is never half way)
ContrastByte(v) ==
  IF 6 * v - 255 <= 0 THEN 0
  ELSE IF 6 * v - 255 >= 4 * 255 THEN 255
  ELSE (6 * v - 253) \div 4

\* effects.ts lines 61-73, called with amount 1.5 (part_005 line 80)
CpuContrast(data) ==
  [j \in 1..Len(data) |-> IF j % 4 = 0 THEN data[j] ELSE ContrastByte(data[j])]

Abs(x) == IF x < 0 THEN -x ELSE x
Min(a, b) == IF a <= b THEN a ELSE b

\* Numbers too large for one machine integer, as <<hi, lo>> = hi * 10^6 + lo.
\* the square of x, |x| <= 1020000
Square(x) ==
  LET a == Abs(x) \div 1000
      b == Abs(x) % 1000
      t == 2 * a * b
      lo == (t % 1000) * 1000 + b * b
  IN <<a * a + t \div 1000 + lo \div 1000000, lo % 1000000>>

Plus(u, v) == <<u[1] + v[1] + (u[2] + v[2]) \div 1000000, (u[2] + v[2]) % 1000000>>

AtLeast(u, v) == u[1] > v[1] \/ (u[1] = v[1] /\ u[2] >= v[2])

\* the square of k halves, in units of 1/1000: (500 k)^2
HalfSquare(k) == <<(k * k) \div 4, ((k * k) % 4) * 250000>>

\* effects.ts lines 100-105: Math.min(255, Math.sqrt(gx*gx + gy*gy)) stored in
\* a Uint8ClampedArray (nearest integer, a tie to the even one); gx, gy in
\* units of 1/1000
MagnitudeOfSum(gx, gy) == Min(255, (Abs(gx) + Abs(gy) + 500) \div 1000)
Magnitude(gx, gy) ==
  LET sq == Plus(Square(gx), Square(gy))
  IN IF AtLeast(sq, HalfSquare(2 * 255)) THEN 255
     ELSE LET up == CHOOSE m \in 0..255 :
                      /\ m = 0 \/ AtLeast(sq, HalfSquare(2 * m - 1))
                      /\ ~AtLeast(sq, HalfSquare(2 * m + 1))
          IN IF up > 0 /\ sq = HalfSquare(2 * up - 1) /\ up % 2 = 1 THEN up - 1 ELSE up

\* effects.ts lines 89-99: the Sobel sums at pixel (x, y), in units of 1/1000
SobelX(data, w, x, y) ==
  LET l(dx, dy) == Lum(data, (y + dy) * w + (x + dx))
  IN - l(-1, -1) - 2 * l(-1, 0) - l(-1, 1) + l(1, -1) + 2 * l(1, 0) + l(1, 1)

SobelY(data, w, x, y) ==
  LET l(dx, dy) == Lum(data, (y + dy) * w + (x + dx))
  IN - l(-1, -1) - 2 * l(0, -1) - l(1, -1) + l(-1, 1) + 2 * l(0, 1) + l(1, 1)

\* effects.ts lines 75-111: zeros on the border, the gradient magnitude and
\* alpha 255 inside
CpuEdges(data, w, h) ==
  [j \in 1..Len(data) |->
     LET p == (j - 1) \div 4
         x == p % w
         y == p \div w
     IN IF x < 1 \/ x > w - 2 \/ y < 1 \/ y > h - 2 THEN 0
        ELSE IF j % 4 = 0 THEN 255
        ELSE Magnitude(SobelX(data, w, x, y), SobelY(data, w, x, y))]

\* part_005 lines 64-83: the effect stage
CpuEffect(effect, data, w, h) ==
  CASE ~HasCase(effect) -> data
    [] effect = "edges" -> CpuEdges(data, w, h)
    [] effect = "invert" -> CpuInvert(data)
    [] effect = "threshold" -> CpuThreshold(data)
    [] effect = "posterize" -> CpuPosterize(data)
    [] effect = "contrast" -> CpuContrast(data)

\* part_005 lines 103-113: (x * scale) | 0 where scale = src / out and the
\* product are computed in double precision.  For sizes up to 30 the product
\* truncates to the exact quotient x*src/out except for these <<src, out, x>>,
\* where x*src/out is an integer and the rounded product lies just below it.
ProductBelowQuotient == {<<30, 22, 11>>, <<30, 26, 13>>}

ScaledIndex(x, src, out) ==
  (x * src) \div out - (IF <<src, out, x>> \in ProductBelowQuotient THEN 1 ELSE 0)

\* part_005 lines 95-100: the 1:1 pass, in units of 1/255000
LuminanceFastNoBlue(data, outW, outH) ==
  [q \in 1..(outW * outH) |-> 299 * Red(data, q - 1) + 587 * Green(data, q - 1)]
LuminanceFast(data, outW, outH) ==
  [q \in 1..(outW * outH) |-> Lum(data, q - 1)]

\* part_005 lines 102-117: the sampling pass, in units of 1/255000
LuminanceSampled(data, srcW, srcH, outW, outH) ==
  [q \in 1..(outW * outH) |->
     LET x == (q - 1) % outW
         y == (q - 1) \div outW
         srcX == Min(ScaledIndex(x, srcW, outW), srcW - 1)
         srcY == Min(ScaledIndex(y, srcH, outH), srcH - 1)
     IN Lum(data, srcY * srcW + srcX)]

\* part_005 lines 86-118: luminance extraction
ExtractLuminance(data, srcW, srcH, outW, outH) ==
  IF srcW = outW /\ srcH = outH THEN LuminanceFast(data, outW, outH)
  ELSE LuminanceSampled(data, srcW, srcH, outW, outH)

\* ----------------------------------------- processFrame on a caller's frame

\* the colours the caller's frames are made of
Palette ==
  <<<<128, 128, 128, 255>>, <<0, 0, 0, 255>>, <<140, 120, 110, 200>>,
    <<255, 255, 255, 255>>>>

\* a frame of PipeWidth x PipeHeight pixels: pixel (x, y) has the colour
\* number a*x + b*y + c of the palette
TestFrame(a, b, c) ==
  [j \in 1..(PipeWidth * PipeHeight * BytesPerPixel) |->
     LET p == (j - 1) \div 4
         x == p % PipeWidth
         y == p \div PipeWidth
     IN Palette[((a * x + b * y + c) % Len(Palette)) + 1][((j - 1) % 4) + 1]]

\* rows of 16 pixels that between them hold every value of a byte in the red
\* channel (and in the others): pixel x of row frame k has red 16 k + x
RampPixel(v) == <<v, 255 - v, (3 * v) % 256, (v + 128) % 256>>
RampFrame(k) ==
  [j \in 1..(16 * BytesPerPixel) |-> RampPixel(16 * k + (j - 1) \div 4)[((j - 1) % 4) + 1]]

\* part_004 lines 104-122: left half black, right half white
SeamFrame ==
  [j \in 1..(SeamSize * SeamSize * BytesPerPixel) |->
     LET x == ((j - 1) \div 4) % SeamSize
     IN IF j % 4 = 0 THEN 255 ELSE IF 2 * x < SeamSize THEN 0 ELSE 255]

\* part_004 lines 195-199
MirrorTestFrame == <<10, 10, 10, 255, 20, 20, 20, 255, 30, 30, 30, 255, 40, 40, 40, 255>>

\* one row whose pixels all differ, and an output width it is sampled to
WideDims == <<30, 1>>
NarrowDims == <<22, 1>>
WideFrame ==
  [j \in 1..(WideDims[1] * BytesPerPixel) |->
     IF j % 4 = 0 THEN 255 ELSE 8 * ((j - 1) \div 4)]

\* the frames callers hand to processFrame
PatternFrames ==
  {[dims |-> <<PipeWidth, PipeHeight>>, data |-> TestFrame(a, b, c)] :
     a \in 0..(Len(Palette) - 1), b \in 0..(Len(Palette) - 1),
     c \in 0..(Len(Palette) - 1)}
CallerFrames ==
  PatternFrames
    \cup {[dims |-> <<16, 1>>, data |-> RampFrame(k)] : k \in 0..15}
    \cup {[dims |-> <<1, 1>>, data |-> RampPixel(77)],
          [dims |-> <<SeamSize, SeamSize>>, data |-> SeamFrame],
          [dims |-> <<4, 1>>, data |-> MirrorTestFrame],
          [dims |-> WideDims, data |-> WideFrame]}

\* frames whose data is not width * height * 4 bytes: too short, too long,
\* and of no pixels
MalformedFrames ==
  {[dims |-> <<2, 1>>, data |-> RampPixel(77)],
   [dims |-> <<2, 2>>, data |-> RampPixel(77) \o RampPixel(200)],
   [dims |-> <<1, 1>>, data |-> RampPixel(77) \o RampPixel(200)],
   [dims |-> <<0, 0>>, data |-> RampPixel(77)]}

\* part_005 lines 52-53: what processFrame would have to check
WellFormed(dims, data) ==
  dims[1] > 0 /\ dims[2] > 0 /\ Len(data) = dims[1] * dims[2] * BytesPerPixel

\* the output sizes callers construct pipelines for
CallerOutDims(frame) ==
  IF frame.dims = WideDims THEN {NarrowDims}
  ELSE IF frame \in PatternFrames
       THEN {<<PipeWidth, PipeHeight>>, <<PipeWidth - 1, PipeHeight - 1>>}
       ELSE {frame.dims, <<PipeWidth - 1, PipeHeight - 1>>}

CallerFrame ==
  [width |-> inputDims[1], height |-> inputDims[2], data |-> InputBuf, timestamp |-> 0,
   seq |-> 0]

NoCall == [frame |-> NoFrame, effect |-> "none", mirror |-> FALSE, resized |-> FALSE,
           raised |-> FALSE]

\* the bytes a buffer reference of the caller's pipeline points at, now
PipeBytes(ref) ==
  IF ref = InputBuf THEN inputBuf
  ELSE IF ref = MirrorBuf THEN mirrorBuf
  ELSE IF ref = EffectBuf THEN effectBuf
  ELSE <<>>

\* a typed array that held old after bytes were stored from its start:
\* stores past its end are dropped
Store(old, bytes) ==
  [j \in 1..Len(old) |-> IF j <= Len(bytes) THEN bytes[j] ELSE old[j]]

\* part_005 lines 52-127 on the bytes: what processFrame leaves in mirrorBuf
\* (mb before the call), effectBuf (eb) and luminanceBuf, and the bytes of the
\* buffer its color field references
ProcessBytes(mb, eb, input, w, h, effect, mir, dims) ==
  LET len == EnsureBuffers(Len(mb), w * h)
      m0 == IF len # Len(mb) THEN Zeros(len) ELSE mb
      e0 == IF len # Len(mb) THEN Zeros(len) ELSE eb
      \* effects.ts line 117: new Uint32Array(data.buffer, data.byteOffset,
      \* width * height) throws a RangeError if the buffer is too short
      raised == mir /\ Len(input) < 4 * w * h
      m1 == IF mir /\ ~raised THEN Store(m0, CpuMirror(input, w, h)) ELSE m0
      afterMirror == IF mir THEN m1 ELSE input
      e1 == IF raised \/ ~HasCase(effect) THEN e0
            ELSE IF effect = "edges"
                 THEN Store(Zeros(Len(e0)), CpuEdges(afterMirror, w, h))
                 ELSE Store(e0, CpuEffect(effect, afterMirror, w, h))
      processed == IF HasCase(effect) THEN e1 ELSE afterMirror
  IN [mirrorBuf |-> m1, effectBuf |-> e1, color |-> processed,
      luminance |-> IF raised THEN <<>>
                    ELSE ExtractLuminance(processed, w, h, dims[1], dims[2]),
      resized |-> Len(mb) # 0 /\ len # Len(mb),
      raised |-> raised]

\* part_005 lines 52-127: processFrame(frame, effect, mir) of the caller's
\* pipeline
ProcessCall(effect, mir) ==
  /\ inputBuf # <<>>
  /\ LET out == ProcessBytes(mirrorBuf, effectBuf, inputBuf, CallerFrame.width,
                             CallerFrame.height, effect, mir, outDims)
     IN /\ mirrorBuf' = out.mirrorBuf
        /\ effectBuf' = out.effectBuf
        /\ luminanceBuf' = IF out.raised THEN luminanceBuf ELSE out.luminance
        /\ lastCall' = [frame |-> CallerFrame, effect |-> effect, mirror |-> mir,
                        resized |-> out.resized, raised |-> out.raised]
        /\ result' = IF out.raised THEN result ELSE ProcessFrame(CallerFrame, effect, mir)
  /\ event' = NoEvent
  /\ UNCHANGED <<appVars, mock, outDims, inputBuf, inputDims, factoryVars, now, camVars, published,
                 mockVars, loopVars, scratchLen, sinkVars, lastProcessed, thrown>>

\* the caller gets another frame to process
HandFrame(frame) ==
  /\ inputBuf # <<>>
  /\ inputBuf' = frame.data
  /\ inputDims' = frame.dims
  /\ event' = NoEvent
  /\ UNCHANGED <<appVars, mock, outDims, mirrorBuf, effectBuf, luminanceBuf, lastCall, result,
                 factoryVars, now, camVars, published, mockVars, loopVars, scratchLen,
                 sinkVars, lastProcessed, thrown>>

\* ---------------------------------------------------- createShaderPipeline

\* part_005 line 304
TryGpuAlways(enabled) == TRUE
TryGpu(enabled) == enabled

\* part_005 lines 282-292: the probe's verdict on the exit code; 124 is what
\* the 3 s timer resolves the race with
ProbeTimeoutCode == 124
GpuAvailableUnlessTimeout(code) == code # ProbeTimeoutCode
GpuAvailable(code) == code = 0

\* how probeGpuAvailability ended: "none" (not run), "threw" (Bun.spawn
\* threw), "exited", "timeout"; code is the exitCode it compared, -1 without
Probe(ended, code) == [ended |-> ended, code |-> code]

\* part_005 lines 25 and 139: isGpu of the pipeline classes
IsGpu(kind) == kind = "gpu"

\* part_005 lines 52 and 248-253: the code that processFrame of a pipeline
\* runs; GpuShaderPipeline.processFrame calls its cpuFallback
ProcessPath(kind) == "cpu"

\* part_005 lines 331-339: the catch and the CPU pipeline after it
FallBackToCpu ==
  /\ pipeline' = "cpu"
  /\ factory' = "resolved"

\* part_005 lines 299-313 and 337-339, part_005 lines 269-273: the call, up to
\* its first await.  spawnOk: Bun.spawn of the probe does not throw.
CreateShaderPipeline(spawnOk) ==
  /\ factory = "idle"
  /\ IF ~TryGpu(gpuEnabled)
     THEN /\ pipeline' = "cpu"
          /\ factory' = "resolved"
          /\ UNCHANGED <<probe, gpuInit>>
     ELSE IF spawnOk
     THEN /\ factory' = "probing"
          /\ UNCHANGED <<probe, gpuInit, pipeline>>
     ELSE /\ probe' = Probe("threw", -1)
          /\ FallBackToCpu
          /\ UNCHANGED gpuInit
  /\ event' = NoEvent
  /\ UNCHANGED <<appVars, mock, pipeVars, gpuEnabled, now, camVars, published, mockVars, loopVars,
                 scratchLen, sinkVars, lastProcessed, thrown>>

\* part_005 lines 313-323: what follows the probe's verdict
AfterProbe(code) ==
  IF GpuAvailable(code)
  THEN /\ factory' = "initializing"
       /\ gpuInit' = "pending"
       /\ UNCHANGED pipeline
  ELSE /\ FallBackToCpu
       /\ UNCHANGED gpuInit

\* part_005 lines 275-276: the probe subprocess exits with the code
ProbeExits(code) ==
  /\ factory = "probing"
  /\ probe' = Probe("exited", code)
  /\ AfterProbe(code)
  /\ event' = NoEvent
  /\ UNCHANGED <<appVars, mock, pipeVars, gpuEnabled, now, camVars, published, mockVars, loopVars,
                 scratchLen, sinkVars, lastProcessed, thrown>>

\* part_005 lines 277-279: the 3 s timer fires first and kills the probe
ProbeTimesOut ==
  /\ factory = "probing"
  /\ probe' = Probe("timeout", ProbeTimeoutCode)
  /\ AfterProbe(ProbeTimeoutCode)
  /\ event' = NoEvent
  /\ UNCHANGED <<appVars, mock, pipeVars, gpuEnabled, now, camVars, published, mockVars, loopVars,
                 scratchLen, sinkVars, lastProcessed, thrown>>

\* part_005 lines 323-330: initialize() resolves before the 5 s timer fires
InitResolves ==
  /\ factory = "initializing"
  /\ gpuInit' = "resolved"
  /\ pipeline' = "gpu"
  /\ factory' = "resolved"
  /\ event' = NoEvent
  /\ UNCHANGED <<appVars, mock, pipeVars, gpuEnabled, probe, now, camVars, published, mockVars, loopVars,
                 scratchLen, sinkVars, lastProcessed, thrown>>

\* part_005 lines 156-172, 328 and 331-339: initialize() rejects first
InitRejects ==
  /\ factory = "initializing"
  /\ gpuInit' = "rejected"
  /\ FallBackToCpu
  /\ event' = NoEvent
  /\ UNCHANGED <<appVars, mock, pipeVars, gpuEnabled, probe, now, camVars, published, mockVars, loopVars,
                 scratchLen, sinkVars, lastProcessed, thrown>>

\* part_005 lines 324-328 and 331-339: the 5 s timer fires first
InitTimesOut ==
  /\ factory = "initializing"
  /\ gpuInit' = "timeout"
  /\ FallBackToCpu
  /\ event' = NoEvent
  /\ UNCHANGED <<appVars, mock, pipeVars, gpuEnabled, probe, now, camVars, published, mockVars, loopVars,
                 scratchLen, sinkVars, lastProcessed, thrown>>

\* ---------------------------------------------------------------- index.ts

EFFECTS == <<"none", "edges", "posterize", "contrast", "invert", "threshold">>

\* effects.ts line 3: the values of type EffectName
EffectNames == {EFFECTS[i] : i \in DOMAIN EFFECTS}

\* config.ts line 55 and part_000 line 231: config.effect is the word after
\* --effect, whatever it is, or "none"; it is cast to EffectName unchecked.
\* The command lines of the model give no --effect or one with a word that
\* names no effect; the loop reaches the other effects by cycling.
ConfigEffects == {"none", "sepia"}

\* effects.ts lines 11-14; indexOf is EFFECTS.indexOf(current), 0-based, -1 if
\* current is not in EFFECTS
GetNextEffect(current) ==
  LET indexOf == IF current \in EffectNames
                 THEN (CHOOSE i \in 1..Len(EFFECTS) : EFFECTS[i] = current) - 1
                 ELSE -1
  IN EFFECTS[((indexOf + 1) % Len(EFFECTS)) + 1]

\* part_000 lines 243-270
HandleAction(action) ==
  /\ EventLoopFree
  /\ action \in {"toggle-pause", "cycle-effect", "toggle-mirror"}
  /\ paused' = IF action = "toggle-pause" THEN ~paused ELSE paused
  /\ currentEffect' = IF action = "cycle-effect" THEN GetNextEffect(currentEffect)
                      ELSE currentEffect
  /\ mirror' = IF action = "toggle-mirror" THEN ~mirror ELSE mirror
  /\ event' = NoEvent
  /\ UNCHANGED <<rendered, mock, pipeVars, factoryVars, now, camVars, published, mockVars, frameCount, lastFpsTime,
                 currentFps, lastFrameTimestamp, processing, inFlight, scratchLen,
                 sinkVars, lastProcessed, thrown>>

\* camera.getFrame(): ffmpeg-camera.ts lines 141-143, part_001 lines 46-48
GetFrameBeingWritten ==
  IF mock THEN mockFrame
  ELSE IF ffFrame = NoFrame THEN ffFrame
  ELSE [ffFrame EXCEPT !.data = WriteTarget(useA)]
GetFrame == IF mock THEN mockFrame ELSE ffFrame

\* part_000 lines 334-364: the branch a frame-callback invocation takes
TickPathNoGuard(busy, isPaused, frame, lastTs) ==
  IF isPaused THEN "paused"
  ELSE IF frame = NoFrame THEN "noframe"
  ELSE IF frame.timestamp = lastTs THEN "duplicate"
  ELSE "process"

TickPathNoDedupe(busy, isPaused, frame, lastTs) ==
  IF busy THEN "skipped"
  ELSE IF isPaused THEN "paused"
  ELSE IF frame = NoFrame THEN "noframe"
  ELSE "process"

TickPathNoPause(busy, isPaused, frame, lastTs) ==
  IF busy THEN "skipped"
  ELSE IF frame = NoFrame THEN "noframe"
  ELSE IF frame.timestamp = lastTs THEN "duplicate"
  ELSE "process"

TickPathNoNullCheck(busy, isPaused, frame, lastTs) ==
  IF busy THEN "skipped"
  ELSE IF isPaused THEN "paused"
  ELSE IF frame = NoFrame THEN "duplicate"
  ELSE IF frame.timestamp = lastTs THEN "duplicate"
  ELSE "process"

TickPathCoarse(busy, isPaused, frame, lastTs) ==
  IF busy THEN "skipped"
  ELSE IF isPaused THEN "paused"
  ELSE IF frame = NoFrame THEN "noframe"
  ELSE IF frame.timestamp \div FpsWindowMs = lastTs \div FpsWindowMs THEN "duplicate"
  ELSE "process"

TickPath(busy, isPaused, frame, lastTs) ==
  IF busy THEN "skipped"
  ELSE IF isPaused THEN "paused"
  ELSE IF frame = NoFrame THEN "noframe"
  ELSE IF frame.timestamp = lastTs THEN "duplicate"
  ELSE "process"

\* part_000 lines 396-398: the value of processing when an invocation that
\* took the guard ends on the given path
ReleaseGuardNoFinally(path) == path = "threw"
ReleaseGuard(path) == FALSE

\* part_000 lines 315-329, 339-352, 391 and status-bar.ts lines 50-53: what
\* app.updateStatus(status) copies into StatusBar.info.  Every invocation
\* writes status.fps and status.paused before it publishes the object, so
\* the object itself carries nothing from one invocation to the next.
Status(isPaused, fps) == [paused |-> isPaused, fps |-> fps]

Path == TickPath(processing, paused, GetFrame, lastFrameTimestamp)



\* line 334
TickSkipped ==
  /\ Path = "skipped"
  /\ event' = Did("skipped", {})
  /\ UNCHANGED <<appVars, mock, pipeVars, factoryVars, now, camVars, published, mockVars, loopVars, scratchLen,
                 sinkVars, lastProcessed, thrown>>

\* lines 335-350 and 396-398
TickPaused ==
  /\ Path = "paused"
  /\ statusBar' = Status(TRUE, currentFps)
  /\ processing' = ReleaseGuard("paused")
  /\ event' = Did("paused", {"updateStatus"})
  /\ UNCHANGED <<appVars, mock, pipeVars, factoryVars, now, camVars, published, mockVars, currentEffect, mirror, paused,
                 frameCount, lastFpsTime, currentFps, lastFrameTimestamp, inFlight,
                 scratchLen, currentFrame, lastProcessed, thrown>>

\* lines 335-358 and 396-398
TickNoFrame ==
  /\ Path = "noframe"
  /\ processing' = ReleaseGuard("noframe")
  /\ event' = Did("noframe", {"getFrame"})
  /\ UNCHANGED <<appVars, mock, pipeVars, factoryVars, now, camVars, published, mockVars, currentEffect, mirror, paused,
                 frameCount, lastFpsTime, currentFps, lastFrameTimestamp, inFlight,
                 scratchLen, sinkVars, lastProcessed, thrown>>

\* lines 335-363 and 396-398
TickDuplicate ==
  /\ Path = "duplicate"
  /\ statusBar' = Status(FALSE, currentFps)
  /\ processing' = ReleaseGuard("duplicate")
  /\ event' = Did("duplicate", {"getFrame", "updateStatus"})
  /\ UNCHANGED <<appVars, mock, pipeVars, factoryVars, now, camVars, published, mockVars, currentEffect, mirror, paused,
                 frameCount, lastFpsTime, currentFps, lastFrameTimestamp, inFlight,
                 scratchLen, currentFrame, lastProcessed, thrown>>

\* lines 335-367: the invocation reaches pipeline.processFrame(frame,
\* currentEffect, mirror) and is inside the call
TickProcess ==
  /\ Path = "process"
  /\ Len(inFlight) < MaxInFlight
  /\ processing' = TRUE
  /\ lastFrameTimestamp' = GetFrame.timestamp
  /\ inFlight' = Append(inFlight,
                        [frame |-> GetFrame, effect |-> currentEffect, mirror |-> mirror])
  /\ lastProcessed' = GetFrame.seq
  /\ event' = Did("process", {"getFrame", "processFrame"})
  /\ UNCHANGED <<appVars, mock, pipeVars, factoryVars, now, camVars, published, mockVars, currentEffect, mirror, paused,
                 frameCount, lastFpsTime, currentFps, scratchLen, sinkVars, thrown>>

\* lines 367-398: processFrame returns to the invocation that called it
PipelineReturns ==
  /\ inFlight # <<>>
  /\ LET call == Head(inFlight)
         windowOver == now - lastFpsTime >= FpsWindowMs
     IN /\ scratchLen' = EnsureBuffers(scratchLen, Width * Height)
        /\ currentFrame' = ProcessFrame(call.frame, call.effect, call.mirror)
        /\ frameCount' = IF windowOver THEN 0 ELSE frameCount + 1
        /\ currentFps' = IF windowOver THEN frameCount + 1 ELSE currentFps
        /\ lastFpsTime' = IF windowOver THEN now ELSE lastFpsTime
        /\ statusBar' = Status(FALSE, currentFps')
  /\ inFlight' = Tail(inFlight)
  /\ processing' = ReleaseGuard("returned")
  /\ event' = Did("returned", {"updateFrame", "updateStatus"})
  /\ UNCHANGED <<uiVars, mock, pipeVars, factoryVars, now, camVars, published, mockVars, currentEffect, mirror, paused,
                 lastFrameTimestamp, lastProcessed, thrown>>

\* lines 367 and 396-398: processFrame throws (a RangeError from an
\* allocation in ensureBuffers, a malformed frame); only the finally runs
PipelineThrows ==
  /\ inFlight # <<>>
  /\ inFlight' = Tail(inFlight)
  /\ processing' = ReleaseGuard("threw")
  /\ event' = Did("threw", {})
  /\ thrown' = Head(inFlight).frame.seq
  /\ UNCHANGED <<appVars, mock, pipeVars, factoryVars, now, camVars, published, mockVars, currentEffect, mirror, paused,
                 frameCount, lastFpsTime, currentFps, lastFrameTimestamp, scratchLen,
                 sinkVars, lastProcessed>>

Tick == TickSkipped \/ TickPaused \/ TickNoFrame \/ TickDuplicate \/ TickProcess

\* ---------------------------------------------------------------- config.ts

\* the value a JavaScript expression has when there is nothing there
Undefined == "undefined"
NaN == "NaN"

\* the words the command lines of the model are made of
ArgWords ==
  {"--no-gpu", "--mock", "--mirror", "--fps", "30", "--effect", "edges",
   "--resolution", "64x48"}

\* parseInt(word, 10) for the words of the model: the leading digits decide
IsNumeral(word) == word \in {"24", "30", "48", "64", "64x48"}
Numeral(word) ==
  IF word = "24" THEN 24
  ELSE IF word = "30" THEN 30
  ELSE IF word = "48" THEN 48
  ELSE 64
ParseInt(word) == IF IsNumeral(word) THEN Numeral(word) ELSE NaN


\* lines 20-24; name is the flag with its dashes
GetArg(args, name) ==
  IF \E i \in DOMAIN args : args[i] = name
  THEN LET idx == CHOOSE i \in DOMAIN args :
                    args[i] = name /\ \A j \in 1..(i - 1) : args[j] # name
       IN IF idx + 1 \in DOMAIN args THEN args[idx + 1] ELSE Undefined
  ELSE Undefined

\* lines 26-28
HasFlag(args, name) == \E i \in DOMAIN args : args[i] = name

\* value || fallback for a string or undefined
OrElse(value, fallback) ==
  IF value = Undefined \/ value = "" THEN fallback ELSE value

\* lines 44-45: parseInt(part, 10) || fallback
IntOrElse(part, fallback) ==
  IF IsNumeral(part) /\ Numeral(part) # 0 THEN Numeral(part) ELSE fallback

\* lines 17-62, with the terminal size read where stdout is no terminal
\* (columns and rows undefined: 80 by 24)
ParseConfig(args) ==
  LET termWidth == 80
      termHeight == (24 - 1) * 2
      resolution == GetArg(args, "--resolution")
      \* line 42: resolution.split("x"), for the words of the model
      parts == IF resolution = "64x48" THEN <<"64", "48">> ELSE <<resolution>>
      given == resolution # Undefined /\ resolution # "" /\ Len(parts) = 2
  IN [mock |-> HasFlag(args, "--mock"),
      mockPattern |-> OrElse(GetArg(args, "--pattern"), "gradient"),
      fps |-> ParseInt(OrElse(GetArg(args, "--fps"), "24")),
      width |-> IF given THEN IntOrElse(parts[1], termWidth) ELSE termWidth,
      height |-> IF given THEN IntOrElse(parts[2], termHeight) ELSE termHeight,
      effect |-> OrElse(GetArg(args, "--effect"), "none"),
      noGpu |-> HasFlag(args, "--no-gpu"),
      mirror |-> HasFlag(args, "--mirror"),
      color |-> HasFlag(args, "--color"),
      ramp |-> OrElse(GetArg(args, "--ramp"), "standard"),
      cameraIndex |-> OrElse(GetArg(args, "--camera"), "0")]

\* the command lines of the model
ArgLists == UNION {[1..n -> ArgWords] : n \in 0..MaxArgs}

\* config before part_000 line 228 has run
NoConfig == [parsed |-> FALSE]

\* a command line that makes parseConfig return the given mock, noGpu and
\* effect
ArgvFor(isMock, gpu, effect) ==
  (IF isMock THEN <<"--mock">> ELSE <<>>)
  \o (IF gpu THEN <<>> ELSE <<"--no-gpu">>)
  \o (IF effect = "none" THEN <<>> ELSE <<"--effect", effect>>)

\* part_000 lines 228-232: the module reads its configuration
ParseArgs ==
  /\ config = NoConfig
  /\ config' = ParseConfig(argv)
  /\ currentEffect' = config'.effect
  /\ mirror' = config'.mirror
  /\ UNCHANGED <<mock, pipeVars, factoryVars, now, camVars, published, mockVars,
                 paused, frameCount, lastFpsTime, currentFps, lastFrameTimestamp,
                 processing, inFlight, scratchLen, sinkVars, logVars, rendered,
                 argv, bootVars, helpVisible, helpOverlay, keyEvent>>

\* -------------------------------------------------------------- controls.ts

\* lines 17-26
KEY_BINDINGS ==
  <<[key |-> "space", action |-> "toggle-pause"],
    [key |-> "e", action |-> "cycle-effect"],
    [key |-> "r", action |-> "cycle-ramp"],
    [key |-> "m", action |-> "toggle-mirror"],
    [key |-> "s", action |-> "toggle-supersample"],
    [key |-> "p", action |-> "cycle-pattern"],
    [key |-> "h", action |-> "toggle-help"],
    [key |-> "q", action |-> "quit"]>>

\* lines 28-35: keyToAction.get(keyName); a later binding of a key replaces
\* an earlier one
GetAction(keyName) ==
  IF \E i \in DOMAIN KEY_BINDINGS : KEY_BINDINGS[i].key = keyName
  THEN LET last == CHOOSE i \in DOMAIN KEY_BINDINGS :
                     /\ KEY_BINDINGS[i].key = keyName
                     /\ \A j \in DOMAIN KEY_BINDINGS :
                          KEY_BINDINGS[j].key = keyName => j <= i
       IN KEY_BINDINGS[last].action
  ELSE Undefined

\* the keys of the model: the bound ones and one that is not bound
Keys == {KEY_BINDINGS[i].key : i \in DOMAIN KEY_BINDINGS} \cup {"z"}

\* ---------------------------------------------------- TuiCamApp and cleanup

\* shader-pipeline.ts line 554: the key only closes the help overlay
ConsumedByHelpNever(visible, keyName) == FALSE
ConsumedByHelp(visible, keyName) == visible /\ keyName # "h"

\* shader-pipeline.ts lines 572-607: helpOverlay after toggleHelp() has set
\* helpVisible to visible
OverlayAfter(overlay, visible) ==
  IF visible THEN "visible"
  ELSE IF overlay = "null" THEN "null"
  ELSE "hidden"

\* part_000 lines 405-410: cleanup().  camera.stop() on the undefined camera
\* and this.renderer.destroy() on the undefined renderer (shader-pipeline.ts
\* line 634) throw a TypeError, and what follows the throw does not run.
Cleanup ==
  IF camera = "undefined"
  THEN /\ exited' = "threw"
       /\ UNCHANGED <<renderer, camera, shaders>>
  ELSE /\ camera' = "stopped"
       /\ shaders' = IF shaders = "undefined" THEN shaders ELSE "destroyed"
       /\ renderer' = IF renderer = "undefined" THEN renderer ELSE "destroyed"
       /\ exited' = IF renderer = "undefined" THEN "threw" ELSE "exit"

\* part_000 lines 243-270: handleAction, which the app calls as onAction;
\* the ramp, the supersample flag and the mock pattern are not in the model
OnAction(action) ==
  IF action \in {"toggle-pause", "cycle-effect", "toggle-mirror"}
  THEN HandleAction(action) /\ UNCHANGED bootVars
  ELSE IF action = "quit"
       THEN Cleanup /\ UNCHANGED <<mainAt, coreVars>>
       ELSE UNCHANGED <<bootVars, coreVars>>

\* shader-pipeline.ts lines 547-608: a keypress reaches handleKey
HandleKey(keyName) ==
  /\ exited = "no"
  /\ renderer = "created"
  /\ EventLoopFree
  /\ LET consumed == ConsumedByHelp(helpVisible, keyName)
         action == IF consumed THEN Undefined ELSE GetAction(keyName)
         toggles == consumed \/ action = "toggle-help"
         forwarded == IF toggles THEN Undefined ELSE action
     IN /\ helpVisible' = IF toggles THEN ~helpVisible ELSE helpVisible
        /\ helpOverlay' = IF toggles THEN OverlayAfter(helpOverlay, ~helpVisible)
                          ELSE helpOverlay
        /\ keyEvent' = [key |-> keyName, wasVisible |-> helpVisible,
                        action |-> action, forwarded |-> forwarded]
        /\ OnAction(forwarded)
  /\ UNCHANGED <<argv, config, rendered>>

\* shader-pipeline.ts lines 514-550 and part_000 lines 282-298:
\* app.initialize() resolves and main() constructs the camera
InitializeResolves ==
  /\ exited = "no"
  /\ mainAt = "initialize"
  /\ renderer' = "created"
  /\ camera' = "created"
  /\ mainAt' = "createShaderPipeline"
  /\ UNCHANGED <<coreVars, argv, config, shaders, exited, helpVisible, helpOverlay,
                 keyEvent, rendered>>

\* part_000 lines 282 and 416-419: createCliRenderer rejects, main() rejects
\* and the catch handler calls cleanup()
InitializeRejects ==
  /\ exited = "no"
  /\ mainAt = "initialize"
  /\ mainAt' = "rejected"
  /\ Cleanup
  /\ UNCHANGED <<coreVars, argv, config, helpVisible, helpOverlay, keyEvent, rendered>>

\* part_000 line 301: createShaderPipeline resolves
PipelineCreated ==
  /\ exited = "no"
  /\ mainAt = "createShaderPipeline"
  /\ shaders' = "created"
  /\ mainAt' = "camera.start"
  /\ UNCHANGED <<coreVars, argv, config, renderer, camera, exited, helpVisible,
                 helpOverlay, keyEvent, rendered>>

\* part_000 lines 304-402: camera.start() resolves and main() runs to its end
CameraStarted ==
  /\ exited = "no"
  /\ mainAt = "camera.start"
  /\ mainAt' = "running"
  /\ UNCHANGED <<coreVars, argv, config, renderer, camera, shaders, exited,
                 helpVisible, helpOverlay, keyEvent, rendered>>

\* part_000 lines 304 and 416-419: camera.start() rejects (Bun.spawn throws)
CameraStartRejects ==
  /\ exited = "no"
  /\ mainAt = "camera.start"
  /\ mainAt' = "rejected"
  /\ Cleanup
  /\ UNCHANGED <<coreVars, argv, config, helpVisible, helpOverlay, keyEvent, rendered>>

\* part_000 lines 413-414: SIGINT or SIGTERM arrives
Signal ==
  /\ exited = "no"
  /\ EventLoopFree
  /\ Cleanup
  /\ UNCHANGED <<coreVars, argv, config, mainAt, helpVisible, helpOverlay, keyEvent,
                 rendered>>

\* ------------------------------------------------------------------ heap

\* the bytes a buffer reference points at, now
BufBytes(ref) ==
  IF ref = BufA THEN frameBufA
  ELSE IF ref = BufB THEN frameBufB
  ELSE mockHeap[ref[2]]

\* =================================================================== claims

\* C1: the read loop publishes one frame per complete frame of the stream, in
\* stream order, and the k-th published frame holds bytes
\* [k*frameSize, (k+1)*frameSize) of the stream, however the stream was cut
\* into chunks.
C1_FramesInStreamOrder ==
  ~mock =>
    /\ Len(published) = received \div FrameSize
    /\ \A k \in 1..Len(published) : published[k].bytes = StreamFrame(k - 1)

\* the whole stream of MaxFrames frames was delivered, one chunk of it
\* holding more than two frames' worth (the accumulation buffer had to grow)
C1_Witness ==
  /\ ~mock
  /\ received = MaxFrames * FrameSize
  /\ Len(published) = MaxFrames
  /\ bufLen > 2 * FrameSize

\* C2: between two chunk deliveries getFrame() returns null until a whole
\* frame has arrived and afterwards a Frame whose buffer holds all frameSize
\* bytes of the most recently completed stream frame.
C2_PublishedFrameWhole ==
  ~mock =>
    /\ (ffFrame = NoFrame) <=> (received < FrameSize)
    /\ ffFrame # NoFrame =>
         /\ Len(BufBytes(ffFrame.data)) = FrameSize
         /\ BufBytes(ffFrame.data) = StreamFrame((received \div FrameSize) - 1)

\* a frame is published while part of the next one sits in the accumulation
\* buffer and the other frame buffer holds the frame before
C2_Witness ==
  /\ ~mock
  /\ ffFrame # NoFrame
  /\ offset > 0
  /\ Len(published) >= 2

\* C3: each extraction writes into the frame buffer the published Frame does
\* not reference, and the published Frames reference frameBufA, frameBufB,
\* frameBufA, ... in turn.
C3_AlternatingBuffers ==
  ~mock =>
    /\ (IF useA THEN BufA ELSE BufB) # ffFrame.data
    /\ \A k \in 1..Len(published) :
         published[k].data = IF k % 2 = 1 THEN BufA ELSE BufB

\* three frames published, two of them extracted from one chunk
C3_Witness ==
  /\ ~mock
  /\ Len(published) >= 3
  /\ bufLen > 2 * FrameSize

\* C4 as claimed: the buffer of every Frame ever published still holds the
\* bytes it was published with.
C4_NeverChanges ==
  \A k \in 1..Len(published) : BufBytes(published[k].data) = published[k].bytes

\* C4 amended: the buffer of a published Frame holds the bytes it was
\* published with while that Frame is the latest or the one before the latest
\* (FfmpegCamera); every Frame of MockCamera keeps its bytes for good.
C4_UnchangedForOneMoreFrame ==
  \A k \in 1..Len(published) :
    (mock \/ k >= Len(published) - 1) =>
      BufBytes(published[k].data) = published[k].bytes

\* FfmpegCamera has published a third frame over the buffer of the first
C4_Witness ==
  /\ ~mock
  /\ Len(published) >= 3
  /\ BufBytes(published[1].data) # published[1].bytes
  /\ BufBytes(published[2].data) = published[2].bytes

\* the pixel buffers the sources own
SourceBuffers == {BufA, BufB} \cup {MockBuf(k) : k \in 1..Len(mockHeap)}

\* a frame callback is entered in this step / ends in this step
TickEnds == TickPaused \/ TickNoFrame \/ TickDuplicate \/ PipelineReturns \/ PipelineThrows

\* C5: once the invocation that processed a frame has returned, the
\* ProcessedFrame the viewport keeps references no pixel buffer of the source.
C5_NoSourceBufferRetained ==
  inFlight = <<>> =>
    /\ currentFrame.color \notin SourceBuffers
    /\ currentFrame.luminance \notin SourceBuffers

\* C6: at most one invocation is inside pipeline.processFrame, and an
\* invocation that finds processing set makes no call and changes nothing.
C6_SingleFlight ==
  /\ [](Len(inFlight) <= 1)
  /\ [][(processing /\ Tick) =>
          /\ event' = Did("skipped", {})
          /\ UNCHANGED <<loopVars, scratchLen, sinkVars, lastProcessed, thrown>>]_vars

\* a tick was dropped while an invocation was inside processFrame
C6_Witness ==
  /\ event.path = "skipped"
  /\ Len(inFlight) = 1
  /\ processing

\* C7: processing is set exactly while an invocation is inside processFrame:
\* every path out of the callback, the exception path included, clears it.  So
\* an invocation that starts while none is in progress, not paused, and gets a
\* frame with a timestamp other than lastFrameTimestamp hands that frame to
\* the pipeline, and what the pipeline returns for it goes to the viewport.
C7_GuardReleased ==
  /\ [](processing <=> inFlight # <<>>)
  /\ [][TickEnds => ~processing']_vars
  /\ [][(Tick /\ inFlight = <<>> /\ ~paused /\ GetFrame # NoFrame
              /\ GetFrame.timestamp # lastFrameTimestamp) =>
          /\ event'.path = "process"
          /\ inFlight' = <<[frame |-> GetFrame, effect |-> currentEffect,
                            mirror |-> mirror]>>]_vars
  /\ [][PipelineReturns => currentFrame'.of = Head(inFlight).frame.seq]_vars

\* processFrame threw on one frame, and a later frame has been processed and
\* is what the viewport shows
C7_Witness ==
  /\ thrown > 0
  /\ currentFrame.of > thrown
  /\ event.path = "returned"
  /\ ~processing

\* C8: the hand-off is the one field this.frame and holds the latest
\* published Frame; the frame an invocation hands to the pipeline is the
\* latest published one, with the bytes it was published with; the frames
\* processed have increasing publication numbers.
C8_LatestFrameOnly ==
  /\ [](GetFrame.seq = Len(published))
  /\ [](\A i \in 1..Len(inFlight) :
          /\ inFlight[i].frame.seq = Len(published)
          /\ BufBytes(inFlight[i].frame.data) = published[Len(published)].bytes)
  /\ [][lastProcessed' >= lastProcessed]_vars

\* frame 2 is the only frame ever handed to the pipeline: frame 1 was
\* published, superseded and dropped
C8_Witness ==
  /\ lastProcessed = 2
  /\ currentFrame.of = 2
  /\ thrown = 0
  /\ frameCount = 1
  /\ currentFps = 0
  /\ lastFpsTime = 0

\* C9: an invocation that is not paused and gets the frame whose timestamp is
\* lastFrameTimestamp calls getFrame and updateStatus and nothing else: no
\* pipeline call, no frame to the viewport, the status bar updated.  Every
\* frame handed to the pipeline has a higher publication number than the one
\* before: none is processed twice.
C9_Dedupe ==
  /\ [][(Tick /\ ~processing /\ ~paused /\ GetFrame # NoFrame
              /\ GetFrame.timestamp = lastFrameTimestamp) =>
          /\ event' = Did("duplicate", {"getFrame", "updateStatus"})
          /\ statusBar' = Status(FALSE, currentFps)
          /\ UNCHANGED <<inFlight, currentFrame, lastProcessed, lastFrameTimestamp>>]_vars
  /\ [][TickProcess => GetFrame.seq > lastProcessed]_vars

\* a duplicate tick after a frame was processed and shown
C9_Witness ==
  /\ event.path = "duplicate"
  /\ lastProcessed >= 1
  /\ currentFrame.of = lastProcessed

\* C10: an invocation taken while paused publishes the status with
\* paused = true and does nothing else.
C10_PausedTick ==
  [][(Tick /\ ~processing /\ paused) =>
       /\ event' = Did("paused", {"updateStatus"})
       /\ statusBar' = Status(TRUE, currentFps)
       /\ UNCHANGED <<lastFrameTimestamp, frameCount, lastFpsTime, currentFps,
                      inFlight, currentFrame, lastProcessed>>]_vars

\* a paused tick while the source holds a frame that was never processed
C10_Witness ==
  /\ event.path = "paused"
  /\ statusBar.paused
  /\ paused
  /\ GetFrame.seq > lastProcessed

\* a readFrames() call leaves its loop on end of stream or on a failed read
LoopEnds == \E l \in DOMAIN spawned : StreamEnd(l) \/ ReadFails(l)


\* C11: when a read returns done or fails, the readFrames() call ends with its
\* promise fulfilled (nothing is raised), isRunning() is false and the
\* published Frame is untouched; getFrame() returns the last Frame a complete
\* stream frame was decoded into, or null, and keeps returning it while no
\* read loop is left.
C11_StreamEndKeepsLastFrame ==
  /\ [][LoopEnds =>
          /\ ~IsRunning'
          /\ ffFrame' = ffFrame
          /\ \A l \in DOMAIN spawned : spawned'[l].loop \in {"reading", "exited"}]_vars
  /\ [](~mock =>
          /\ ffFrame.seq = Len(published)
          /\ ffFrame # NoFrame =>
               BufBytes(ffFrame.data) = published[Len(published)].bytes)
  /\ [][(~mock /\ ~(\E l \in DOMAIN spawned : spawned[l].loop = "reading")) =>
          /\ ffFrame' = ffFrame
          /\ frameBufA' = frameBufA
          /\ frameBufB' = frameBufB]_vars

\* the stream ended (stop() was not called) after a frame and a part of the
\* next one: the camera is not running and still holds the frame
C11_Witness ==
  /\ ~mock
  /\ running
  /\ readerDone
  /\ ~IsRunning
  /\ Len(spawned) = 1
  /\ spawned[1].loop = "exited"
  /\ spawned[1].offset > 0
  /\ ffFrame # NoFrame

\* C12 (each direction no stronger than the claim's): isRunning() implies that
\* the readFrames() call draining the current subprocess has not exited, and
\* whenever the current subprocess is alive and the call draining it has not
\* exited, isRunning() is true.
C12_IsRunningIffDraining ==
  ~mock =>
    /\ IsRunning => (proc # 0 /\ spawned[proc].loop = "reading")
    /\ (proc # 0 /\ spawned[proc].proc = "alive" /\ spawned[proc].loop = "reading")
         => IsRunning

\* C13: once stop() has run, no subprocess the instance spawned is alive.
C13_StopKillsEverySubprocess ==
  (~mock /\ ~running) => \A l \in DOMAIN spawned : spawned[l].proc # "alive"

\* C14: every start() call that met a start failure (Bun.spawn threw, or the
\* subprocess cannot open the capture device) settled as a rejection.
C14_StartFailureRejects ==
  \A k \in DOMAIN starts :
    starts[k].outcome # "spawned" => starts[k].settled = "rejected"

\* C15: once stop() has run, no interval of the instance is left to fire.
C15_StopClearsEveryTimer ==
  (mock /\ ~MockIsRunning) => timers = {}

\* C16: getFrame() of a MockCamera returns null exactly until the first
\* start(), afterwards a Frame of the configured width and height whose
\* buffer has width*height*4 bytes with 255 in every alpha byte.
C16_MockFrameWellFormed ==
  mock =>
    /\ (mockFrame = NoFrame) <=> (timersMade = 0)
    /\ mockFrame # NoFrame =>
         /\ mockFrame.width = Width
         /\ mockFrame.height = Height
         /\ Len(BufBytes(mockFrame.data)) = Width * Height * 4
         /\ \A px \in 1..(Width * Height) : BufBytes(mockFrame.data)[4 * px] = 255

\* the instance was started and an interval has fired since
C16_Witness ==
  /\ mock
  /\ MockIsRunning
  /\ timersMade = 1
  /\ mockT >= 2
  /\ mockFrame.seq >= 2

\* C17: the pipeline createShaderPipeline returned reports isGpu exactly when
\* its processFrame runs the GPU path.
C17_IsGpuMeansGpuPath ==
  pipeline # "none" => (IsGpu(pipeline) <=> ProcessPath(pipeline) = "gpu")

\* C18: with gpuEnabled false neither the probe nor the GPU initialization is
\* ever run, and the pipeline returned has isGpu false.
C18_NoGpuNoProbe ==
  ~gpuEnabled =>
    /\ probe.ended = "none"
    /\ gpuInit = "none"
    /\ factory \in {"idle", "resolved"}
    /\ factory = "resolved" => (pipeline = "cpu" /\ ~IsGpu(pipeline))

\* createShaderPipeline(w, h, false) has returned and the camera was started
C18_Witness ==
  /\ ~gpuEnabled
  /\ factory = "resolved"
  /\ pipeline = "cpu"
  /\ starts # <<>>

C20_MirrorThenEffectThenLuminance ==
  lastCall # NoCall =>
    LET w == lastCall.frame.width
        h == lastCall.frame.height
        mirrored == IF lastCall.mirror THEN CpuMirror(inputBuf, w, h) ELSE inputBuf
        expected == CpuEffect(lastCall.effect, mirrored, w, h)
    IN /\ PipeBytes(result.color) = expected
       /\ result.luminance = LuminanceBuf
       /\ luminanceBuf = ExtractLuminance(PipeBytes(result.color), w, h,
                                          outDims[1], outDims[2])

\* a mirrored edge detection of a frame that is not symmetric, whose result
\* is not all zero
C20_Witness ==
  /\ lastCall # NoCall
  /\ lastCall.mirror
  /\ lastCall.effect = "edges"
  /\ inputDims = <<PipeWidth, PipeHeight>>
  /\ CpuMirror(inputBuf, PipeWidth, PipeHeight) # inputBuf
  /\ \E j \in 1..Len(effectBuf) : j % 4 # 0 /\ effectBuf[j] \notin {0, 255}
  /\ result.color = EffectBuf

\* some processFrame call of the caller's pipeline
Processes == \E i \in 1..Len(EFFECTS), mir \in BOOLEAN : ProcessCall(EFFECTS[i], mir)

\* C21: every processFrame call, whatever frames (of whatever sizes) the
\* pipeline processed before, returns the color bytes and the luminance
\* values that a newly constructed pipeline of the same output size returns
\* for the same frame, effect and mirror flag.
C21_SameAsNewPipeline ==
  [][Processes =>
       LET fresh == ProcessBytes(<<>>, <<>>, inputBuf, inputDims[1], inputDims[2],
                                 lastCall'.effect, lastCall'.mirror, outDims)
       IN /\ PipeBytes(result.color)' = fresh.color
          /\ luminanceBuf' = fresh.luminance]_vars

\* a mirrored, inverted frame whose size differs from that of the frame the
\* pipeline processed before, so that ensureBuffers replaced the buffers
C21_Witness ==
  /\ lastCall.resized
  /\ lastCall.mirror
  /\ lastCall.effect = "invert"
  /\ Len(effectBuf) = Len(inputBuf)

\* C22: the color field of a ProcessedFrame has 4 * width * height bytes for
\* the width and height the ProcessedFrame reports, and its pixel at an index
\* is the pixel the luminance value at that index was computed from.
C22_ColorSameDimensions ==
  lastCall # NoCall =>
    LET color == PipeBytes(result.color)
    IN /\ Len(color) = 4 * outDims[1] * outDims[2]
       /\ \A q \in 1..(outDims[1] * outDims[2]) : Lum(color, q - 1) = luminanceBuf[q]

\* C23: processFrame fills outWidth * outHeight luminance values, the one at
\* (x, y) being (0.299 R + 0.587 G + 0.114 B) / 255 of the processed frame's
\* pixel at column min(floor(x * srcW / outW), srcW - 1) and row
\* min(floor(y * srcH / outH), srcH - 1); each lies in [0, 1].
C23_NearestSourcePixel ==
  lastCall # NoCall =>
    LET src == PipeBytes(result.color)
        srcW == lastCall.frame.width
        srcH == lastCall.frame.height
        outW == outDims[1]
        outH == outDims[2]
    IN /\ Len(luminanceBuf) = outW * outH
       /\ \A q \in 1..(outW * outH) :
            LET x == (q - 1) % outW
                y == (q - 1) \div outW
                sx == Min((x * srcW) \div outW, srcW - 1)
                sy == Min((y * srcH) \div outH, srcH - 1)
            IN /\ luminanceBuf[q] = Lum(src, sy * srcW + sx)
               /\ luminanceBuf[q] >= 0
               /\ luminanceBuf[q] <= 255 * 1000

\* C24: when the processed frame has the output size, the luminance
\* processFrame returns (computed by the 1:1 pass) is what the sampling pass
\* computes for the same buffer and sizes.
C24_FastPathIsSampling ==
  (lastCall # NoCall /\ inputDims = outDims) =>
    luminanceBuf = LuminanceSampled(PipeBytes(result.color), inputDims[1], inputDims[2],
                                    outDims[1], outDims[2])

\* a 1:1 call on a frame of several rows whose luminance values differ
C24_Witness ==
  /\ lastCall # NoCall
  /\ inputDims = outDims
  /\ inputDims[2] > 1
  /\ lastCall.effect = "contrast"
  /\ \E q \in DOMAIN luminanceBuf : luminanceBuf[q] # luminanceBuf[1]

\* C25: after a mirrored call mirrorBuf holds, at column x of each row, the
\* four bytes of the frame's pixel at column width - 1 - x, in their order,
\* and mirroring mirrorBuf gives the frame's bytes back.
C25_MirrorFlipsPixels ==
  (lastCall # NoCall /\ lastCall.mirror) =>
    LET w == inputDims[1]
        h == inputDims[2]
    IN /\ Len(mirrorBuf) = Len(inputBuf)
       /\ \A y \in 0..(h - 1), x \in 0..(w - 1), ch \in 1..4 :
            mirrorBuf[4 * (y * w + x) + ch] = inputBuf[4 * (y * w + (w - 1 - x)) + ch]
       /\ CpuMirror(mirrorBuf, w, h) = inputBuf

\* the mirror test's frame (part_004 lines 194-208), mirrored
C25_Witness ==
  /\ lastCall # NoCall
  /\ lastCall.mirror
  /\ inputBuf = MirrorTestFrame
  /\ mirrorBuf[1] = 40
  /\ mirrorBuf[4] = 255
  /\ mirrorBuf[13] = 10

\* C26: after an invert call effectBuf holds 255 - v for every R, G and B
\* byte v of the frame and the frame's alpha bytes, and inverting effectBuf
\* gives the frame's bytes back.
C26_InvertIsSelfInverse ==
  (lastCall # NoCall /\ lastCall.effect = "invert" /\ ~lastCall.mirror) =>
    /\ Len(effectBuf) = Len(inputBuf)
    /\ \A j \in 1..Len(inputBuf) :
         effectBuf[j] = IF j % 4 = 0 THEN inputBuf[j] ELSE 255 - inputBuf[j]
    /\ CpuInvert(effectBuf) = inputBuf

\* the row of pixels with red 0..15 and alpha 128..143, inverted
C26_Witness ==
  /\ lastCall # NoCall
  /\ lastCall.effect = "invert"
  /\ ~lastCall.mirror
  /\ inputBuf = RampFrame(0)
  /\ effectBuf[1] = 255
  /\ effectBuf[2] = 0
  /\ effectBuf[4] = 128

\* C27: after a threshold call every pixel of effectBuf has R = G = B = 255
\* if 0.299 R + 0.587 G + 0.114 B of the frame's pixel is at least 128, and
\* R = G = B = 0 otherwise, with the frame's alpha; luminance exactly 128
\* counts as at least 128.
C27_ThresholdAtCutoff ==
  (lastCall # NoCall /\ lastCall.effect = "threshold" /\ ~lastCall.mirror) =>
    \A p \in 0..(inputDims[1] * inputDims[2] - 1) :
      LET v == IF Lum(inputBuf, p) >= 128 * 1000 THEN 255 ELSE 0
      IN /\ Red(effectBuf, p) = v
         /\ Green(effectBuf, p) = v
         /\ Blue(effectBuf, p) = v
         /\ Alpha(effectBuf, p) = Alpha(inputBuf, p)

\* C28: after an edges call every pixel of the one-pixel border of effectBuf
\* is zero and every interior pixel has alpha 255 and, in R, G and B, the
\* integer nearest to min(255, sqrt(Gx^2 + Gy^2)) of the 3x3 Sobel sums of the
\* frame's luminance; for the frame whose left half is black and right half
\* white the value at the seam columns exceeds that at every other column.
C28_SobelInsideZeroBorder ==
  (lastCall # NoCall /\ lastCall.effect = "edges" /\ ~lastCall.mirror) =>
    LET w == inputDims[1]
        h == inputDims[2]
        l(x, y) == Lum(inputBuf, y * w + x)
        gx(x, y) == (l(x + 1, y - 1) + 2 * l(x + 1, y) + l(x + 1, y + 1))
                      - (l(x - 1, y - 1) + 2 * l(x - 1, y) + l(x - 1, y + 1))
        gy(x, y) == (l(x - 1, y + 1) + 2 * l(x, y + 1) + l(x + 1, y + 1))
                      - (l(x - 1, y - 1) + 2 * l(x, y - 1) + l(x + 1, y - 1))
        Nearest(v, sq) ==
          /\ v \in 0..255
          /\ v = 0 \/ AtLeast(sq, HalfSquare(2 * v - 1))
          /\ v = 255 \/ AtLeast(HalfSquare(2 * v + 1), sq)
    IN /\ Len(effectBuf) = Len(inputBuf)
       /\ \A y \in 0..(h - 1), x \in 0..(w - 1) :
            LET p == y * w + x
            IN IF x = 0 \/ y = 0 \/ x = w - 1 \/ y = h - 1
               THEN /\ Red(effectBuf, p) = 0
                    /\ Green(effectBuf, p) = 0
                    /\ Blue(effectBuf, p) = 0
                    /\ Alpha(effectBuf, p) = 0
               ELSE /\ Nearest(Red(effectBuf, p), Plus(Square(gx(x, y)), Square(gy(x, y))))
                    /\ Green(effectBuf, p) = Red(effectBuf, p)
                    /\ Blue(effectBuf, p) = Red(effectBuf, p)
                    /\ Alpha(effectBuf, p) = 255
       /\ inputBuf = SeamFrame =>
            \A y \in 1..(SeamSize - 2), x \in 0..(SeamSize - 1) :
              (2 * x # SeamSize /\ 2 * x # SeamSize - 2) =>
                /\ Red(effectBuf, y * SeamSize + x) < Red(effectBuf, y * SeamSize + SeamSize \div 2)
                /\ Red(effectBuf, y * SeamSize + x)
                     < Red(effectBuf, y * SeamSize + SeamSize \div 2 - 1)

\* the edge test's frame (part_004 lines 103-129): the seam pixel (5, 5) is
\* saturated and the flat pixels are 0
C28_Witness ==
  /\ lastCall # NoCall
  /\ lastCall.effect = "edges"
  /\ ~lastCall.mirror
  /\ inputBuf = SeamFrame
  /\ effectBuf[(5 * SeamSize + 5) * 4 + 1] = 255
  /\ effectBuf[(5 * SeamSize + 2) * 4 + 1] = 0
  /\ effectBuf[(5 * SeamSize + 0) * 4 + 1] = 0

\* C29: after a posterize call every R, G and B byte of effectBuf is the one
\* of 0, 85, 170, 255 nearest to the frame's byte, alpha is the frame's, and
\* posterizing effectBuf again changes nothing.
C29_PosterizeFourLevels ==
  (lastCall # NoCall /\ lastCall.effect = "posterize" /\ ~lastCall.mirror) =>
    /\ Len(effectBuf) = Len(inputBuf)
    /\ \A j \in 1..Len(inputBuf) :
         IF j % 4 = 0 THEN effectBuf[j] = inputBuf[j]
         ELSE /\ effectBuf[j] \in {0, 85, 170, 255}
              /\ 2 * Abs(effectBuf[j] - inputBuf[j]) <= 85
    /\ CpuPosterize(effectBuf) = effectBuf

\* the row of pixels with red 32..47: red 42 goes down to 0, red 43 up to 85
C29_Witness ==
  /\ lastCall # NoCall
  /\ lastCall.effect = "posterize"
  /\ ~lastCall.mirror
  /\ inputBuf = RampFrame(2)
  /\ inputBuf[41] = 42
  /\ effectBuf[41] = 0
  /\ inputBuf[45] = 43
  /\ effectBuf[45] = 85

\* C30: getNextEffect steps through none, edges, posterize, contrast, invert,
\* threshold and from threshold back to none, so that six steps from an
\* effect return to it; and the effect of every processFrame call the frame
\* callback makes is one of these six.
C30_EffectInClosedSet ==
  /\ \A i \in 1..Len(EFFECTS) :
       /\ GetNextEffect(EFFECTS[i]) = EFFECTS[(i % Len(EFFECTS)) + 1]
       /\ GetNextEffect(GetNextEffect(GetNextEffect(GetNextEffect(GetNextEffect(
             GetNextEffect(EFFECTS[i])))))) = EFFECTS[i]
  /\ EFFECTS = <<"none", "edges", "posterize", "contrast", "invert", "threshold">>
  /\ \A k \in DOMAIN inFlight : inFlight[k].effect \in EffectNames

\* C31: parseConfig with no flags returns fps 24, effect "none", ramp
\* "standard", mock false, mirror false and a field gpu that is true; with
\* the one flag --no-gpu the field gpu is false.
C31_DefaultsAndGpuField ==
  config # NoConfig =>
    /\ argv = <<>> =>
         /\ config.fps = 24
         /\ config.effect = "none"
         /\ config.ramp = "standard"
         /\ config.mock = FALSE
         /\ config.mirror = FALSE
         /\ "gpu" \in DOMAIN config
         /\ config.gpu = TRUE
    /\ argv = <<"--no-gpu">> =>
         /\ "gpu" \in DOMAIN config
         /\ config.gpu = FALSE

\* every readFrames() call has left its loop: nothing will publish a frame
SourceDead == ~mock /\ \A l \in DOMAIN spawned : spawned[l].loop # "reading"

\* C32: a source that died before it published a frame is shown to the sink:
\* the tick that finds it so makes a call to the sink (a no-signal state that
\* differs from the last frame of a stale source); and a frame the viewport
\* holds is never taken away again.
C32_NoSignalSurfaced ==
  /\ [](SourceDead /\ ffFrame = NoFrame /\ event.path = "noframe"
          => event.calls \cap {"updateFrame", "updateStatus"} # {})
  /\ [][currentFrame # NoProcessed => currentFrame' # NoProcessed]_vars

\* C33: processFrame given a frame whose data length is not width*height*4,
\* or whose width or height is zero, raises an error and returns no
\* ProcessedFrame.
C33_MalformedFrameRejected ==
  [][(/\ ~WellFormed(inputDims, inputBuf)
      /\ \E effect \in {"none", "invert"}, mir \in BOOLEAN : ProcessCall(effect, mir))
     => (lastCall'.raised /\ result' = result)]_vars

\* C34: an invocation that is not paused and gets no frame from getFrame()
\* does nothing: no processFrame call, no frame and no status for the sink,
\* and lastFrameTimestamp, frameCount, lastFpsTime and currentFps as before.
C34_NoFrameTickIsNoOp ==
  [][(Tick /\ ~processing /\ ~paused /\ GetFrame = NoFrame) =>
       /\ event' = Did("noframe", {"getFrame"})
       /\ ~processing'
       /\ UNCHANGED <<lastFrameTimestamp, frameCount, lastFpsTime, currentFps,
                      inFlight, scratchLen, sinkVars, lastProcessed>>]_vars

\* such an invocation, after the user has changed the effect
C34_Witness ==
  /\ event.path = "noframe"
  /\ GetFrame = NoFrame
  /\ ~paused
  /\ currentEffect = "edges"
  /\ statusBar = Status(FALSE, 0)

\* C35: the fps the status shows is the number of frames processed in the
\* second that has just ended: whenever a status is published a second or
\* more after the counter was last reset, its fps is the number of frames
\* counted since then (0 when the source stalled or the loop was paused).
C35_FpsIsRealizedRate ==
  ("updateStatus" \in event.calls /\ now - lastFpsTime >= FpsWindowMs)
    => statusBar.fps = frameCount

\* C36: the accumulation buffer of readFrames: a chunk always fits behind
\* the bytes already held, in the buffer as it is after the optional growth,
\* and growth keeps those bytes; after a chunk has been handled
\* 0 <= offset < frameSize, the bytes received are those of the published
\* frames plus offset, and the published frames followed by the buffer are
\* the stream received: the buffer holds exactly the tail that no frame has
\* consumed yet.
C36_AccumulationBuffer ==
  /\ [](~mock =>
          /\ 0 <= offset /\ offset < FrameSize
          /\ received = Len(published) * FrameSize + offset
          /\ buffer = Chunk(received - offset, offset)
          /\ \A k \in 1..Len(published) :
               published[k].bytes = Chunk((k - 1) * FrameSize, FrameSize)
          /\ offset <= bufLen)
  /\ [][(~mock /\ received' # received) =>
          /\ offset + (received' - received) <= bufLen'
          /\ bufLen' >= bufLen]_vars

\* the buffer has grown while it held part of a frame, and holds part of a
\* frame again
C36_Witness ==
  /\ ~mock
  /\ bufLen > 2 * FrameSize
  /\ received = 2 * FrameSize + 3
  /\ offset = 3
  /\ Len(published) = 2

SettingsShown == rendered = [effect |-> currentEffect, mirror |-> mirror]

\* C38: when the viewport holds a frame that was computed with another
\* effect or mirror setting than the current one, the sink gets a frame
\* computed with the current ones, whether or not the source publishes
\* again (unless the loop is paused or processFrame throws).
C38_RerenderWithNewSettings ==
  (currentFrame # NoProcessed /\ ~SettingsShown)
    ~> (SettingsShown \/ paused \/ event.path = "threw")

\* C39: a key pressed while the help overlay is visible forwards no action
\* and leaves the application as it was: it hides the overlay (h included,
\* which toggles it).  While the overlay is hidden, h shows it and forwards
\* nothing, an unbound key changes nothing, and every other bound key
\* forwards exactly its own action, which then takes effect.
C39_KeyHandling ==
  [][\A k \in Keys : HandleKey(k) =>
       LET bound == CASE k = "space" -> "toggle-pause"
                      [] k = "e" -> "cycle-effect"
                      [] k = "r" -> "cycle-ramp"
                      [] k = "m" -> "toggle-mirror"
                      [] k = "s" -> "toggle-supersample"
                      [] k = "p" -> "cycle-pattern"
                      [] k = "h" -> "toggle-help"
                      [] k = "q" -> "quit"
                      [] OTHER -> Undefined
       IN IF helpVisible
          THEN /\ keyEvent'.forwarded = Undefined
               /\ ~helpVisible'
               /\ helpOverlay' = "hidden"
               /\ UNCHANGED <<coreVars, bootVars>>
          ELSE IF bound = "toggle-help"
          THEN /\ keyEvent'.forwarded = Undefined
               /\ helpVisible'
               /\ helpOverlay' = "visible"
               /\ UNCHANGED <<coreVars, bootVars>>
          ELSE IF bound = Undefined
          THEN /\ keyEvent'.forwarded = Undefined
               /\ UNCHANGED <<helpVisible, helpOverlay, coreVars, bootVars>>
          ELSE /\ keyEvent'.forwarded = bound
               /\ UNCHANGED <<helpVisible, helpOverlay>>
               /\ bound = "quit" => exited' # "no"
               /\ bound = "toggle-pause" => paused' = ~paused
               /\ bound = "toggle-mirror" => mirror' = ~mirror
               /\ bound = "cycle-effect" => currentEffect' # currentEffect]_vars

\* q was pressed while the overlay was visible: the overlay is hidden and
\* the application has not quit
C39_Witness ==
  /\ keyEvent.key = "q"
  /\ keyEvent.wasVisible
  /\ keyEvent.forwarded = Undefined
  /\ ~helpVisible
  /\ helpOverlay = "hidden"
  /\ exited = "no"

\* C40: whenever cleanup() has run, at whatever point of startup, it ran to
\* process.exit: nothing that existed is left running and nothing was thrown.
C40_CleanupAlwaysExits ==
  exited # "no" =>
    /\ exited = "exit"
    /\ camera # "created"
    /\ shaders # "created"
    /\ renderer # "created"

\* --------------------------------------------------------------------- spec
\* part_005 lines 28-37: a pipeline constructed for dims = <<outWidth,
\* outHeight>>, and the bytes of the frame its caller will hand it
InitPipeline(dims, frame) ==
  /\ outDims = dims
  /\ inputDims = frame.dims
  /\ mirrorBuf = <<>>
  /\ effectBuf = <<>>
  /\ luminanceBuf = Zeros(dims[1] * dims[2])
  /\ inputBuf = frame.data
  /\ lastCall = NoCall
  /\ result = NoProcessed

\* part_000 lines 231-233 and 306-312, and what the viewport and the status
\* bar hold before the first frame
InitLoopWith(effects) ==
  /\ currentEffect \in effects
  /\ mirror = FALSE
  /\ paused = FALSE
  /\ frameCount = 0
  /\ lastFpsTime = 0
  /\ currentFps = 0
  /\ lastFrameTimestamp = -1
  /\ processing = FALSE
  /\ inFlight = <<>>
  /\ currentFrame = NoProcessed
  /\ statusBar = Status(FALSE, 0)
  /\ event = NoEvent
  /\ lastProcessed = 0
  /\ thrown = 0

\* the default configuration: no --effect argument
InitLoop == InitLoopWith({"none"})

NoKey == [key |-> Undefined, wasVisible |-> FALSE, action |-> Undefined,
          forwarded |-> Undefined]
NoSettings == [effect |-> Undefined, mirror |-> FALSE]

\* the process as main() has brought it to the await named by at, with a
\* command line that fits the configuration in effect
InitApp(at) ==
  /\ argv = ArgvFor(mock, gpuEnabled, currentEffect)
  /\ config = ParseConfig(argv)
  /\ mainAt = at
  /\ renderer = "created"
  /\ camera = "created"
  /\ shaders = IF at = "running" THEN "created" ELSE "undefined"
  /\ exited = "no"
  /\ helpVisible = FALSE
  /\ helpOverlay = "null"
  /\ keyEvent = NoKey
  /\ rendered = NoSettings

InitMainWith(effects) ==
  /\ InitPipeline(<<Width, Height>>, [dims |-> <<0, 0>>, data |-> <<>>])
  /\ scratchLen = 0
  /\ InitLoopWith(effects)

InitMain == InitMainWith({"none"})

InitStarted(brights) ==
  /\ mock \in BOOLEAN
  /\ now = 0
  \* createShaderPipeline has returned the CPU pipeline (part_000 line 301);
  \* the GPU pipeline's processFrame runs the same code (part_005 line 252)
  /\ gpuEnabled = FALSE
  /\ factory = "resolved"
  /\ probe = Probe("none", -1)
  /\ gpuInit = "none"
  /\ pipeline = "cpu"
  \* main() has constructed one camera and its camera.start() has returned
  \* (part_000 lines 294-304)
  /\ running = ~mock
  /\ readerDone = FALSE
  /\ proc = IF mock THEN 0 ELSE 1
  /\ spawned = IF mock THEN <<>> ELSE <<NewSpawn("spawned")>>
  /\ starts = IF mock THEN <<>>
              ELSE <<[outcome |-> "spawned", settled |-> StartSettles("spawned")]>>
  /\ mockRunning = mock
  /\ timer = IF mock THEN 1 ELSE 0
  /\ timers = IF mock THEN {1} ELSE {}
  /\ timersMade = IF mock THEN 1 ELSE 0
  /\ frameBufA = Zeros(FrameSize)
  /\ frameBufB = Zeros(FrameSize)
  /\ useA = TRUE
  /\ ffFrame = NoFrame
  \* MockCamera.start() has generated its first frame (part_001 line 35)
  /\ \E b \in brights :
       /\ mockHeap = IF mock THEN <<DrawPattern(b)>> ELSE <<>>
       /\ published = IF mock THEN <<[data |-> MockBuf(1), bytes |-> DrawPattern(b)]>> ELSE <<>>
  /\ mockT = IF mock THEN 1 ELSE 0
  /\ mockFrame = IF mock THEN [width |-> Width, height |-> Height, data |-> MockBuf(1),
                                timestamp |-> 0, seq |-> 1]
                 ELSE NoFrame

InitWith(brights) == InitStarted(brights) /\ InitMain /\ InitApp("running")

\* the program started with any --effect argument
Init == InitStarted(LoopBrights) /\ InitMainWith(ConfigEffects) /\ InitApp("running")

InitCam == InitWith(Brights)

\* the cameras as their constructors leave them (ffmpeg-camera.ts lines 8-26,
\* part_001 lines 16-27): start() not called yet
InitCameras ==
  /\ running = FALSE
  /\ readerDone = FALSE
  /\ proc = 0
  /\ spawned = <<>>
  /\ starts = <<>>
  /\ mockRunning = FALSE
  /\ timer = 0
  /\ timers = {}
  /\ timersMade = 0
  /\ frameBufA = Zeros(FrameSize)
  /\ frameBufB = Zeros(FrameSize)
  /\ useA = TRUE
  /\ ffFrame = NoFrame
  /\ mockHeap = <<>>
  /\ published = <<>>
  /\ mockT = 0
  /\ mockFrame = NoFrame

\* a camera constructed and a pipeline created, in the hands of a caller that
\* starts and stops the camera as it likes
InitLife ==
  /\ mock \in BOOLEAN
  /\ now = 0
  /\ gpuEnabled = FALSE
  /\ factory = "resolved"
  /\ probe = Probe("none", -1)
  /\ gpuInit = "none"
  /\ pipeline = "cpu"
  /\ InitCameras
  /\ InitMain
  /\ InitApp("running")

NextLife ==
  \/ \E o \in {"spawned", "nodevice", "nospawn"} : Start(o, MaxStarts)
  \/ Stop
  \/ \E l \in DOMAIN spawned, n \in ChunkLens : ReadChunk(l, n, 0, LoopFrames)
  \/ \E l \in DOMAIN spawned : StreamEnd(l)
  \/ \E l \in DOMAIN spawned : ReadFails(l)
  \/ \E l \in DOMAIN spawned : ProcExits(l)
  \/ \E b \in Brights : MockStart(b, MaxFrames, MaxStarts)
  \/ MockStop
  \/ \E b \in Brights : GenerateFrame(b, MaxFrames)

SpecLife == InitLife /\ [][NextLife]_vars

\* main() before createShaderPipeline (part_000 lines 294-301)
InitStart ==
  /\ mock \in BOOLEAN
  /\ now = 0
  /\ gpuEnabled \in BOOLEAN
  /\ factory = "idle"
  /\ probe = Probe("none", -1)
  /\ gpuInit = "none"
  /\ pipeline = "none"
  /\ InitCameras
  /\ InitMain
  /\ InitApp("createShaderPipeline")

\* part_000 lines 301-304: main() creates the pipeline and starts the camera
\* once; the camera then runs
NextStart ==
  \/ \E ok \in BOOLEAN : CreateShaderPipeline(ok)
  \/ \E code \in {0, 1, ProbeTimeoutCode} : ProbeExits(code)
  \/ ProbeTimesOut
  \/ InitResolves
  \/ InitRejects
  \/ InitTimesOut
  \/ \E o \in {"spawned", "nodevice", "nospawn"} : Start(o, 1)
  \/ \E l \in DOMAIN spawned, n \in ChunkLens : ReadChunk(l, n, 0, LoopFrames)
  \/ \E l \in DOMAIN spawned : StreamEnd(l)
  \/ \E l \in DOMAIN spawned : ReadFails(l)
  \/ \E l \in DOMAIN spawned : ProcExits(l)
  \/ \E b \in Brights : MockStart(b, LoopFrames, 1)
  \/ \E b \in Brights : GenerateFrame(b, LoopFrames)

SpecStart == InitStart /\ [][NextStart]_vars

\* the timers of createShaderPipeline fire unless what they guard settles first
SpecStartFair == SpecStart /\ WF_vars(ProbeTimesOut) /\ WF_vars(InitTimesOut)

NextCam ==
  \/ \E l \in DOMAIN spawned, n \in 1..MaxChunk, dt \in {0, ClockStep} :
       ReadChunk(l, n, dt, MaxFrames)
  \/ \E b \in Brights : GenerateFrame(b, MaxFrames)
  \/ TimePasses

SpecCam == InitCam /\ [][NextCam]_vars

Next ==
  \/ \E l \in DOMAIN spawned, n \in ChunkLens, dt \in {0, ClockStep} :
       ReadChunk(l, n, dt, LoopFrames)
  \/ \E b \in LoopBrights : GenerateFrame(b, LoopFrames)
  \/ TimePasses
  \/ \E a \in {"toggle-pause", "cycle-effect", "toggle-mirror"} :
       HandleAction(a) /\ UNCHANGED uiVars
  \/ TickSkipped
  \/ TickPaused
  \/ TickNoFrame
  \/ TickDuplicate
  \/ TickProcess
  \/ PipelineReturns /\ UNCHANGED rendered
  \/ PipelineThrows

Spec == Init /\ [][Next]_vars

\* a caller with a pipeline and a frame of its own calls processFrame
InitPipe ==
  /\ mock = FALSE
  /\ now = 0
  /\ gpuEnabled = FALSE
  /\ factory = "resolved"
  /\ probe = Probe("none", -1)
  /\ gpuInit = "none"
  /\ pipeline = "cpu"
  /\ InitCameras
  /\ InitLoop
  /\ scratchLen = 0
  /\ \E frame \in CallerFrames : \E dims \in CallerOutDims(frame) : InitPipeline(dims, frame)
  /\ InitApp("running")

NextPipe ==
  \E i \in 1..Len(EFFECTS), mir \in BOOLEAN : ProcessCall(EFFECTS[i], mir)

SpecPipe == InitPipe /\ [][NextPipe]_vars

\* a caller whose frames change in size from call to call
PureFrames ==
  {[dims |-> <<PipeWidth, PipeHeight>>, data |-> TestFrame(1, 2, 0)],
   [dims |-> <<PipeWidth, PipeHeight>>, data |-> TestFrame(3, 1, 2)],
   [dims |-> <<4, 1>>, data |-> MirrorTestFrame],
   [dims |-> <<1, 1>>, data |-> RampPixel(77)]}

InitPure ==
  /\ mock = FALSE
  /\ now = 0
  /\ gpuEnabled = FALSE
  /\ factory = "resolved"
  /\ probe = Probe("none", -1)
  /\ gpuInit = "none"
  /\ pipeline = "cpu"
  /\ InitCameras
  /\ InitLoop
  /\ scratchLen = 0
  /\ \E frame \in PureFrames : InitPipeline(<<PipeWidth - 1, PipeHeight - 1>>, frame)
  /\ InitApp("running")

NextPure ==
  \/ Processes
  \/ \E frame \in PureFrames : HandFrame(frame)

SpecPure == InitPure /\ [][NextPure]_vars

\* the module is loaded with a command line: part_000 line 228 and the
\* two lines that copy the configuration
InitConfig ==
  /\ argv \in ArgLists
  /\ config = NoConfig
  /\ mock = HasFlag(argv, "--mock")
  /\ now = 0
  /\ gpuEnabled = ~HasFlag(argv, "--no-gpu")
  /\ factory = "idle"
  /\ probe = Probe("none", -1)
  /\ gpuInit = "none"
  /\ pipeline = "none"
  /\ InitCameras
  /\ InitMain
  /\ mainAt = "load"
  /\ renderer = "undefined"
  /\ camera = "undefined"
  /\ shaders = "undefined"
  /\ exited = "no"
  /\ helpVisible = FALSE
  /\ helpOverlay = "null"
  /\ keyEvent = NoKey
  /\ rendered = NoSettings

NextConfig == ParseArgs

SpecConfig == InitConfig /\ [][NextConfig]_vars

\* lines 367-370, with the arguments of the call written down
PipelineReturnsLogged ==
  /\ PipelineReturns
  /\ rendered' = [effect |-> Head(inFlight).effect, mirror |-> Head(inFlight).mirror]

\* the main loop on an FfmpegCamera that can end: the subprocess exits, the
\* stream ends or a read fails.  The clock advances with every frame the
\* source publishes.
NextSource ==
  \/ \E l \in DOMAIN spawned, n \in ChunkLens : ReadChunk(l, n, ClockStep, LoopFrames)
  \/ \E l \in DOMAIN spawned : StreamEnd(l)
  \/ \E l \in DOMAIN spawned : ReadFails(l)
  \/ \E l \in DOMAIN spawned : ProcExits(l)
  \/ \E a \in {"toggle-pause", "cycle-effect", "toggle-mirror"} :
       HandleAction(a) /\ UNCHANGED uiVars
  \/ TickSkipped
  \/ TickPaused
  \/ TickNoFrame
  \/ TickDuplicate
  \/ TickProcess
  \/ PipelineReturnsLogged
  \/ PipelineThrows

InitSource == InitWith(LoopBrights) /\ ~mock

SpecSource == InitSource /\ [][NextSource]_vars

\* the renderer keeps invoking the frame callback and a processFrame call
\* that does not throw returns
SpecSourceFair ==
  SpecSource /\ WF_vars(Tick) /\ WF_vars(PipelineReturnsLogged)

\* a caller whose frames are malformed
InitMalformed ==
  /\ mock = FALSE
  /\ now = 0
  /\ gpuEnabled = FALSE
  /\ factory = "resolved"
  /\ probe = Probe("none", -1)
  /\ gpuInit = "none"
  /\ pipeline = "cpu"
  /\ InitCameras
  /\ InitLoop
  /\ scratchLen = 0
  /\ \E frame \in MalformedFrames, dims \in {<<2, 1>>, <<1, 1>>} :
       InitPipeline(dims, frame)
  /\ InitApp("running")

NextMalformed ==
  \/ \E effect \in {"none", "invert"}, mir \in BOOLEAN : ProcessCall(effect, mir)
  \/ \E frame \in MalformedFrames : HandFrame(frame)

SpecMalformed == InitMalformed /\ [][NextMalformed]_vars

\* performance.now() read after an invocation of the frame callback has
\* processed a frame is later than the timestamp of that frame: the clock
\* has advanced since the frame was published
ClockAdvanced == now > lastFrameTimestamp

\* the main loop, with sources that publish when the clock has advanced
NextClock ==
  \/ \E l \in DOMAIN spawned, n \in ChunkLens, dt \in {0, ClockStep} :
       ClockAdvanced /\ ReadChunk(l, n, dt, LoopFrames)
  \/ \E b \in LoopBrights : ClockAdvanced /\ GenerateFrame(b, LoopFrames)
  \/ TimePasses
  \/ \E a \in {"toggle-pause", "cycle-effect", "toggle-mirror"} :
       HandleAction(a) /\ UNCHANGED uiVars
  \/ TickSkipped
  \/ TickPaused
  \/ TickNoFrame
  \/ TickDuplicate
  \/ TickProcess
  \/ PipelineReturns /\ UNCHANGED rendered
  \/ PipelineThrows

SpecClock == InitWith(LoopBrights) /\ [][NextClock]_vars

\* the module is loaded and main() is at its first await (part_000 lines
\* 228-282)
InitBoot ==
  /\ mock \in BOOLEAN
  /\ now = 0
  /\ gpuEnabled = TRUE
  /\ factory = "idle"
  /\ probe = Probe("none", -1)
  /\ gpuInit = "none"
  /\ pipeline = "none"
  /\ InitCameras
  /\ InitMain
  /\ argv = ArgvFor(mock, gpuEnabled, currentEffect)
  /\ config = ParseConfig(argv)
  /\ mainAt = "initialize"
  /\ renderer = "undefined"
  /\ camera = "undefined"
  /\ shaders = "undefined"
  /\ exited = "no"
  /\ helpVisible = FALSE
  /\ helpOverlay = "null"
  /\ keyEvent = NoKey
  /\ rendered = NoSettings

NextBoot ==
  \/ InitializeResolves
  \/ InitializeRejects
  \/ PipelineCreated
  \/ CameraStarted
  \/ CameraStartRejects
  \/ Signal
  \/ \E keyName \in Keys : HandleKey(keyName)

SpecBoot == InitBoot /\ [][NextBoot]_vars
====
